---- MODULE Spec2Model ----
(***************************************************************************)
(* FixedBlockMap (src/fixed_block_map.go): an open-addressing hash map of  *)
(* 8-lane blocks with a packed 64-bit control word per block.              *)
(*                                                                         *)
(* A 64-bit word is modelled by its eight little-endian bytes, lane i      *)
(* being bits 8i..8i+7; arithmetic on words is carried out byte by byte    *)
(* with carry/borrow and is therefore arithmetic modulo 2^64.              *)
(* A 16-byte key is modelled by the pair <<h1, h2>> of the little-endian   *)
(* uint64 values of its bytes 0..7 and 8..15.                              *)
(***************************************************************************)
EXTENDS Integers, Sequences, FiniteSets, TLC

\* ------------------------------------------------------------------ bounds
Keys0 == 1
Keys1 == 9
MaxBlocks == 2
MaxDeletes == 1
MarkedKeys == 1
MaxRuns == 2
VariantKeys2 == 9
VariantKeys3 == 8
RehashKeys2 == 10
RehashKeys3 == 9
RehashDeletes == 2

\* --------------------------------------------------------------- constants
FixedBlockSize == 8

Lanes == 0 .. (FixedBlockSize - 1)

\* ---------------------------------------------------------- byte operations
RECURSIVE BitAndNat(_, _)
BitAndNat(a, b) ==
    IF a = 0 \/ b = 0 THEN 0
    ELSE (a % 2) * (b % 2) + 2 * BitAndNat(a \div 2, b \div 2)

RECURSIVE BitOrNat(_, _)
BitOrNat(a, b) ==
    IF a = 0 THEN b
    ELSE IF b = 0 THEN a
    ELSE (IF a % 2 = 1 \/ b % 2 = 1 THEN 1 ELSE 0) + 2 * BitOrNat(a \div 2, b \div 2)

RECURSIVE BitXorNat(_, _)
BitXorNat(a, b) ==
    IF a = 0 THEN b
    ELSE IF b = 0 THEN a
    ELSE ((a + b) % 2) + 2 * BitXorNat(a \div 2, b \div 2)

RECURSIVE TrailingZeros8(_)
TrailingZeros8(a) ==
    IF a = 0 THEN 8 ELSE IF a % 2 = 1 THEN 0 ELSE 1 + TrailingZeros8(a \div 2)

Bytes == 0 .. 255

\* the byte operations, tabulated
AndTable == [a \in Bytes |-> [b \in Bytes |-> BitAndNat(a, b)]]

OrTable == [a \in Bytes |-> [b \in Bytes |-> BitOrNat(a, b)]]

XorTable == [a \in Bytes |-> [b \in Bytes |-> BitXorNat(a, b)]]

And8(a, b) == AndTable[a][b]

Or8(a, b) == OrTable[a][b]

Xor8(a, b) == XorTable[a][b]

\* ---------------------------------------------------------- word operations
\* A uint64 is the tuple of its 8 bytes, least significant first: byte i
\* (bits 8i..8i+7) of the word w is w[i + 1].
Zero64 == <<0, 0, 0, 0, 0, 0, 0, 0>>

\* 0x0101010101010101
Ones64 == <<1, 1, 1, 1, 1, 1, 1, 1>>

\* 0x8080808080808080
Highs64 == <<128, 128, 128, 128, 128, 128, 128, 128>>

\* uint64(b) for a byte b
Uint64(b) == <<b, 0, 0, 0, 0, 0, 0, 0>>

\* uint8(w): the low byte of a word
Uint8(w) == w[1]

And64(a, b) ==
    <<And8(a[1], b[1]), And8(a[2], b[2]), And8(a[3], b[3]), And8(a[4], b[4]),
      And8(a[5], b[5]), And8(a[6], b[6]), And8(a[7], b[7]), And8(a[8], b[8])>>

Or64(a, b) ==
    <<Or8(a[1], b[1]), Or8(a[2], b[2]), Or8(a[3], b[3]), Or8(a[4], b[4]),
      Or8(a[5], b[5]), Or8(a[6], b[6]), Or8(a[7], b[7]), Or8(a[8], b[8])>>

Xor64(a, b) ==
    <<Xor8(a[1], b[1]), Xor8(a[2], b[2]), Xor8(a[3], b[3]), Xor8(a[4], b[4]),
      Xor8(a[5], b[5]), Xor8(a[6], b[6]), Xor8(a[7], b[7]), Xor8(a[8], b[8])>>

Not64(a) ==
    <<255 - a[1], 255 - a[2], 255 - a[3], 255 - a[4],
      255 - a[5], 255 - a[6], 255 - a[7], 255 - a[8]>>

\* a - b modulo 2^64: byte-wise subtraction with borrow; the borrow out of
\* byte 7 is dropped
Sub64(a, b) ==
    LET d1 == a[1] - b[1]
        d2 == a[2] - b[2] - (IF d1 < 0 THEN 1 ELSE 0)
        d3 == a[3] - b[3] - (IF d2 < 0 THEN 1 ELSE 0)
        d4 == a[4] - b[4] - (IF d3 < 0 THEN 1 ELSE 0)
        d5 == a[5] - b[5] - (IF d4 < 0 THEN 1 ELSE 0)
        d6 == a[6] - b[6] - (IF d5 < 0 THEN 1 ELSE 0)
        d7 == a[7] - b[7] - (IF d6 < 0 THEN 1 ELSE 0)
        d8 == a[8] - b[8] - (IF d7 < 0 THEN 1 ELSE 0)
    IN <<(d1 + 256) % 256, (d2 + 256) % 256, (d3 + 256) % 256, (d4 + 256) % 256,
         (d5 + 256) % 256, (d6 + 256) % 256, (d7 + 256) % 256, (d8 + 256) % 256>>

\* uint64(t) * w modulo 2^64 for a byte t: byte-wise product with carry; the
\* carry out of byte 7 is dropped
Mul64(t, w) ==
    LET p1 == t * w[1]
        p2 == t * w[2] + (p1 \div 256)
        p3 == t * w[3] + (p2 \div 256)
        p4 == t * w[4] + (p3 \div 256)
        p5 == t * w[5] + (p4 \div 256)
        p6 == t * w[6] + (p5 \div 256)
        p7 == t * w[7] + (p6 \div 256)
        p8 == t * w[8] + (p7 \div 256)
    IN <<p1 % 256, p2 % 256, p3 % 256, p4 % 256,
         p5 % 256, p6 % 256, p7 % 256, p8 % 256>>

\* a + b modulo 2^64: byte-wise addition with carry; the carry out of byte 7
\* is dropped
Add64(a, b) ==
    LET s1 == a[1] + b[1]
        s2 == a[2] + b[2] + (s1 \div 256)
        s3 == a[3] + b[3] + (s2 \div 256)
        s4 == a[4] + b[4] + (s3 \div 256)
        s5 == a[5] + b[5] + (s4 \div 256)
        s6 == a[6] + b[6] + (s5 \div 256)
        s7 == a[7] + b[7] + (s6 \div 256)
        s8 == a[8] + b[8] + (s7 \div 256)
    IN <<s1 % 256, s2 % 256, s3 % 256, s4 % 256,
         s5 % 256, s6 % 256, s7 % 256, s8 % 256>>

\* a / d for a divisor 0 < d < 256: long division from the top byte down
Div64(a, d) ==
    LET r8 == a[8]
        r7 == (r8 % d) * 256 + a[7]
        r6 == (r7 % d) * 256 + a[6]
        r5 == (r6 % d) * 256 + a[5]
        r4 == (r5 % d) * 256 + a[4]
        r3 == (r4 % d) * 256 + a[3]
        r2 == (r3 % d) * 256 + a[2]
        r1 == (r2 % d) * 256 + a[1]
    IN <<r1 \div d, r2 \div d, r3 \div d, r4 \div d,
         r5 \div d, r6 \div d, r7 \div d, r8 \div d>>

\* a < b, compared from the top byte down
RECURSIVE LessFrom(_, _, _)
LessFrom(a, b, n) ==
    IF n < 1 THEN FALSE
    ELSE IF a[n] # b[n] THEN a[n] < b[n]
    ELSE LessFrom(a, b, n - 1)

Less64(a, b) == LessFrom(a, b, 8)

LessEq64(a, b) == ~Less64(b, a)

\* the number of bits of a byte: 8 - (leading zeros of the byte)
RECURSIVE BitLen8(_)
BitLen8(a) == IF a = 0 THEN 0 ELSE 1 + BitLen8(a \div 2)

\* bits.LeadingZeros64
RECURSIVE LeadingZerosFrom(_, _)
LeadingZerosFrom(w, n) ==
    IF n < 1 THEN 0
    ELSE IF w[n] = 0 THEN 8 + LeadingZerosFrom(w, n - 1)
    ELSE 8 - BitLen8(w[n])

LeadingZeros64(w) == LeadingZerosFrom(w, 8)

\* 2^n for 0 <= n <= 7
RECURSIVE Pow2(_)
Pow2(n) == IF n = 0 THEN 1 ELSE 2 * Pow2(n - 1)

\* uint64(1) << n for 0 <= n <= 64; a shift by 64 gives 0
OneShiftLeft64(n) ==
    [i \in 1 .. 8 |-> IF i - 1 = n \div 8 THEN Pow2(n % 8) ELSE 0]

\* the uint64 of a number below 2^31, and the number of a uint64 below 2^31
Word64(n) ==
    <<n % 256, (n \div 256) % 256, (n \div 65536) % 256, n \div 16777216,
      0, 0, 0, 0>>

Nat64(w) == w[1] + 256 * w[2] + 65536 * w[3] + 16777216 * w[4]

\* w >> n and w << n for n a multiple of 8
ShiftRight64(w, n) ==
    [i \in 1 .. 8 |-> IF i + (n \div 8) <= 8 THEN w[i + (n \div 8)] ELSE 0]

ShiftLeft64(w, n) ==
    [i \in 1 .. 8 |-> IF i - (n \div 8) >= 1 THEN w[i - (n \div 8)] ELSE 0]

\* bits.TrailingZeros64
TrailingZerosTable == [a \in Bytes |-> TrailingZeros8(a)]

TrailingZeros64(w) ==
    IF w[1] # 0 THEN TrailingZerosTable[w[1]]
    ELSE IF w[2] # 0 THEN 8 + TrailingZerosTable[w[2]]
    ELSE IF w[3] # 0 THEN 16 + TrailingZerosTable[w[3]]
    ELSE IF w[4] # 0 THEN 24 + TrailingZerosTable[w[4]]
    ELSE IF w[5] # 0 THEN 32 + TrailingZerosTable[w[5]]
    ELSE IF w[6] # 0 THEN 40 + TrailingZerosTable[w[6]]
    ELSE IF w[7] # 0 THEN 48 + TrailingZerosTable[w[7]]
    ELSE IF w[8] # 0 THEN 56 + TrailingZerosTable[w[8]]
    ELSE 64

\* the word-parallel byte test of Get, Put and Delete:
\* faulty variant of ZeroByteMask: every lane is tested by itself, without the
\* borrow that the subtraction carries from a lane into the next
ZeroByteMaskByLane(match) ==
    [i \in 1 .. 8 |-> IF match[i] = 0 THEN 128 ELSE 0]

\* faulty variant of ZeroByteMask: the term ^match is left out
ZeroByteMaskWithoutNot(match) == And64(Sub64(match, Ones64), Highs64)

\* (match - 0x01..01) & ^match & 0x80..80
ZeroByteMask(match) == And64(And64(Sub64(match, Ones64), Not64(match)), Highs64)

\* -------------------------------------------------------------- data model
\* key classes: the value of bytes 0..7 of the keys the model uses.  Class 0
\* has tag 0x80, class 1 has tag 0x81; under mask 1 they have home blocks 0
\* and 1.  Keys of one class differ in bytes 8..15 only.
KeyClasses == {0, 1}

ClassSize(c) == IF c = 0 THEN Keys0 ELSE Keys1

Keys == {k \in KeyClasses \X (0 .. 63) : k[2] < ClassSize(k[1])}

\* the zero value of FixedBlockKey and of V (make() zeroes new blocks)
ZeroKey == <<0, 0>>

ZeroVal == 0

\* the values Put is called with: every key has values of its own, the first
\* MarkedKeys keys of class 1 (the keys that move when the table grows) have
\* two of them
ValueOf(key, n) == 100 * key[1] + 10 * key[2] + n

ValuesFor(key) ==
    IF key[1] = 1 /\ key[2] < MarkedKeys THEN {ValueOf(key, 1), ValueOf(key, 2)}
    ELSE {ValueOf(key, 1)}

Values == UNION {ValuesFor(k) : k \in Keys}

\* key[0]: the low byte of the little-endian uint64 in bytes 0..7
KeyByte0(key) == key[1] % 256

\* key[0] | 0x80
TagOf(key) == Or8(KeyByte0(key), 128)

\* a zeroed FixedBlock[V]
ZeroBlock ==
    [control |-> Zero64,
     keys    |-> [i \in Lanes |-> ZeroKey],
     values  |-> [i \in Lanes |-> ZeroVal]]

controlByte(b, index) == Uint8(ShiftRight64(b.control, index * 8))

setControlByte(b, index, value) ==
    LET shift == index * 8
    IN [b EXCEPT !.control =
            Or64(And64(b.control, Not64(ShiftLeft64(Uint64(255), shift))),
                 ShiftLeft64(Uint64(value), shift))]

\* the block count for a requested capacity, both uint64
calculateBlockCount(capacity) ==
    LET blockCount ==
            Div64(Sub64(Add64(capacity, Word64(FixedBlockSize)), Word64(1)),
                  FixedBlockSize)
    IN IF LessEq64(blockCount, Word64(1)) THEN Word64(1)
       ELSE OneShiftLeft64(64 - LeadingZeros64(Sub64(blockCount, Word64(1))))

NewFixedBlockMap(capacity) ==
    LET blockCount == Nat64(calculateBlockCount(Word64(capacity)))
    IN [blocks |-> [b \in 0 .. (blockCount - 1) |-> ZeroBlock],
        mask   |-> blockCount - 1]

BlockCount(bl) == Cardinality(DOMAIN bl)

Capacity(bl) == BlockCount(bl) * FixedBlockSize

hashToBlock(msk, key) == BitAndNat(key[1], msk)

\* the inner loop of Get, Put and Delete over the set bits of result:
\* the lane of the first flagged lane that stores key, or -1
RECURSIVE MatchLoop(_, _, _)
MatchLoop(block, key, result) ==
    IF result = Zero64 THEN -1
    ELSE LET index == TrailingZeros64(result) \div 8
         IN IF block.keys[index] = key THEN index
            ELSE MatchLoop(block, key, And64(result, Sub64(result, Uint64(1))))

\* faulty variant of TagMatch: a lane is flagged when the low 7 bits of its
\* control byte are those of the tag, whatever its high bit
TagMatchOfLowBits(block, tag) ==
    [i \in 1 .. 8 |->
        IF And8(block.control[i], 127) = And8(tag, 127) THEN 128 ELSE 0]

TagMatch(block, tag) == ZeroByteMask(Xor64(block.control, Mul64(tag, Ones64)))

\* ------------------------------------------------------------------- Get
\* The loop of Get changes nothing but blockIndex, so it runs forever as soon
\* as blockIndex takes a value it had before: outcome "hang".
RECURSIVE GetLoop(_, _, _, _, _)
GetLoop(bl, msk, key, blockIndex, seen) ==
    LET block == bl[blockIndex]
        index == MatchLoop(block, key, TagMatch(block, TagOf(key)))
        next  == BitAndNat(blockIndex + 1, msk)
    IN IF index # -1
       THEN [outcome |-> "found", block |-> blockIndex, lane |-> index]
       ELSE IF ZeroByteMask(block.control) # Zero64
       THEN [outcome |-> "notfound", block |-> -1, lane |-> -1]
       ELSE IF next \in seen \cup {blockIndex}
       THEN [outcome |-> "hang", block |-> -1, lane |-> -1]
       ELSE GetLoop(bl, msk, key, next, seen \cup {blockIndex})

Get(bl, msk, key) == GetLoop(bl, msk, key, hashToBlock(msk, key), {})

\* the value behind the handle Get returns
GetValue(bl, msk, key) ==
    LET r == Get(bl, msk, key)
    IN IF r.outcome = "found" THEN bl[r.block].values[r.lane] ELSE ZeroVal

\* ------------------------------------------------------------------- Put
NoSlot == <<-1, -1>>

WriteLane(bl, slot, key, value) ==
    [bl EXCEPT ![slot[1]] =
        [setControlByte(bl[slot[1]], slot[2], TagOf(key))
            EXCEPT !.keys[slot[2]] = key, !.values[slot[2]] = value]]

\* faulty variant of PutLanes: the first tombstone lane is written at once,
\* before the rest of the probe chain has been searched for the key
RECURSIVE PutLanesTakingTombstone(_, _, _, _, _, _)
PutLanesTakingTombstone(bl, blockIndex, i, firstDeleted, key, value) ==
    IF i >= 8 THEN [done |-> FALSE, blocks |-> bl, firstDeleted |-> firstDeleted]
    ELSE LET ctrl == controlByte(bl[blockIndex], i)
         IN IF ctrl = 0 \/ ctrl = 1
            THEN [done |-> TRUE,
                  blocks |-> WriteLane(bl, <<blockIndex, i>>, key, value),
                  firstDeleted |-> firstDeleted]
            ELSE PutLanesTakingTombstone(bl, blockIndex, i + 1, firstDeleted, key, value)

\* faulty variant of PutLanes: the entry goes into the empty lane that ends
\* the search also when a tombstone lane was met before
RECURSIVE PutLanesIgnoringTombstone(_, _, _, _, _, _)
PutLanesIgnoringTombstone(bl, blockIndex, i, firstDeleted, key, value) ==
    IF i >= 8 THEN [done |-> FALSE, blocks |-> bl, firstDeleted |-> firstDeleted]
    ELSE LET ctrl == controlByte(bl[blockIndex], i)
         IN IF ctrl = 0
            THEN [done |-> TRUE,
                  blocks |-> WriteLane(bl, <<blockIndex, i>>, key, value),
                  firstDeleted |-> firstDeleted]
            ELSE PutLanesIgnoringTombstone(bl, blockIndex, i + 1, firstDeleted, key, value)

\* faulty variant of PutLanes: when a tombstone lane is taken for the entry,
\* the empty lane that ended the search is written as well
RECURSIVE PutLanesWritingBoth(_, _, _, _, _, _)
PutLanesWritingBoth(bl, blockIndex, i, firstDeleted, key, value) ==
    IF i >= 8 THEN [done |-> FALSE, blocks |-> bl, firstDeleted |-> firstDeleted]
    ELSE LET ctrl == controlByte(bl[blockIndex], i)
         IN IF ctrl = 0
            THEN IF firstDeleted # NoSlot
                 THEN [done |-> TRUE,
                       blocks |-> WriteLane(WriteLane(bl, firstDeleted, key, value),
                                            <<blockIndex, i>>, key, value),
                       firstDeleted |-> firstDeleted]
                 ELSE [done |-> TRUE,
                       blocks |-> WriteLane(bl, <<blockIndex, i>>, key, value),
                       firstDeleted |-> firstDeleted]
            ELSE IF ctrl = 1 /\ firstDeleted = NoSlot
            THEN PutLanesWritingBoth(bl, blockIndex, i + 1, <<blockIndex, i>>, key, value)
            ELSE PutLanesWritingBoth(bl, blockIndex, i + 1, firstDeleted, key, value)

\* the lane loop of Put over block blockIndex from lane i on
RECURSIVE PutLanes(_, _, _, _, _, _)
PutLanes(bl, blockIndex, i, firstDeleted, key, value) ==
    IF i >= 8 THEN [done |-> FALSE, blocks |-> bl, firstDeleted |-> firstDeleted]
    ELSE LET ctrl == controlByte(bl[blockIndex], i)
         IN IF ctrl = 0
            THEN IF firstDeleted # NoSlot
                 THEN [done |-> TRUE,
                       blocks |-> WriteLane(bl, firstDeleted, key, value),
                       firstDeleted |-> firstDeleted]
                 ELSE [done |-> TRUE,
                       blocks |-> WriteLane(bl, <<blockIndex, i>>, key, value),
                       firstDeleted |-> firstDeleted]
            ELSE IF ctrl = 1 /\ firstDeleted = NoSlot
            THEN PutLanes(bl, blockIndex, i + 1, <<blockIndex, i>>, key, value)
            ELSE PutLanes(bl, blockIndex, i + 1, firstDeleted, key, value)

\* faulty variant of PutUpdate: the value goes to lane 0 of the block, not to
\* the lane the key was found in
PutUpdateFirstLane(bl, blockIndex, index, value) ==
    [bl EXCEPT ![blockIndex].values[0] = value]

PutUpdate(bl, blockIndex, index, value) ==
    [bl EXCEPT ![blockIndex].values[index] = value]

\* faulty variant of PutWrapped: the probe is taken to have wrapped when it
\* comes to block 0, not when it comes back to the block it started from
PutWrappedAtZero(msk, key, blockIndex) == blockIndex = 0

\* faulty variant of PutWrapped: the probe is taken to have wrapped when it
\* comes to the block after the one it started from
PutWrappedAfterHome(msk, key, blockIndex) ==
    blockIndex = BitAndNat(hashToBlock(msk, key) + 1, msk)

PutWrapped(msk, key, blockIndex) == blockIndex = hashToBlock(msk, key)

\* faulty variant of PutLoop: when the probe has wrapped, the entry is written
\* into the remembered tombstone lane before the overflow error is returned
RECURSIVE PutLoopWritingOnOverflow(_, _, _, _, _, _)
PutLoopWritingOnOverflow(bl, msk, key, value, blockIndex, firstDeleted) ==
    LET block == bl[blockIndex]
        index == MatchLoop(block, key, TagMatch(block, TagOf(key)))
        lanes == PutLanes(bl, blockIndex, 0, firstDeleted, key, value)
        next  == BitAndNat(blockIndex + 1, msk)
    IN IF index # -1
       THEN [err |-> "nil", blocks |-> PutUpdate(bl, blockIndex, index, value)]
       ELSE IF lanes.done
       THEN [err |-> "nil", blocks |-> lanes.blocks]
       ELSE IF PutWrapped(msk, key, next)
       THEN [err |-> "overflow",
             blocks |-> IF lanes.firstDeleted # NoSlot
                        THEN WriteLane(bl, lanes.firstDeleted, key, value)
                        ELSE bl]
       ELSE PutLoopWritingOnOverflow(bl, msk, key, value, next, lanes.firstDeleted)

RECURSIVE PutLoop(_, _, _, _, _, _)
PutLoop(bl, msk, key, value, blockIndex, firstDeleted) ==
    LET block == bl[blockIndex]
        index == MatchLoop(block, key, TagMatch(block, TagOf(key)))
        lanes == PutLanes(bl, blockIndex, 0, firstDeleted, key, value)
        next  == BitAndNat(blockIndex + 1, msk)
    IN IF index # -1
       THEN [err |-> "nil", blocks |-> PutUpdate(bl, blockIndex, index, value)]
       ELSE IF lanes.done
       THEN [err |-> "nil", blocks |-> lanes.blocks]
       ELSE IF PutWrapped(msk, key, next)
       THEN [err |-> "overflow", blocks |-> bl]
       ELSE PutLoop(bl, msk, key, value, next, lanes.firstDeleted)

Put(bl, msk, key, value) ==
    PutLoop(bl, msk, key, value, hashToBlock(msk, key), NoSlot)

\* the blocks the loop of Put inspects from blockIndex on, in order
RECURSIVE PutProbesFrom(_, _, _, _)
PutProbesFrom(bl, msk, key, blockIndex) ==
    LET block == bl[blockIndex]
        index == MatchLoop(block, key, TagMatch(block, TagOf(key)))
        lanes == PutLanes(bl, blockIndex, 0, NoSlot, key, ZeroVal)
        next  == BitAndNat(blockIndex + 1, msk)
    IN IF index # -1 \/ lanes.done \/ PutWrapped(msk, key, next)
       THEN <<blockIndex>>
       ELSE <<blockIndex>> \o PutProbesFrom(bl, msk, key, next)

PutProbes(bl, msk, key) == PutProbesFrom(bl, msk, key, hashToBlock(msk, key))

\* ---------------------------------------------------------------- Delete
\* faulty variant of DeleteLoop: the first lane whose tag matches is taken for
\* the lane of the key, without comparing the stored key
RECURSIVE DeleteLoopTagOnly(_, _, _, _, _)
DeleteLoopTagOnly(bl, msk, key, blockIndex, seen) ==
    LET block == bl[blockIndex]
        result == TagMatch(block, TagOf(key))
        index == IF result = Zero64 THEN -1 ELSE TrailingZeros64(result) \div 8
        next  == BitAndNat(blockIndex + 1, msk)
    IN IF index # -1
       THEN [outcome |-> "return",
             blocks |-> [bl EXCEPT ![blockIndex] = setControlByte(block, index, 1)]]
       ELSE IF ZeroByteMask(block.control) # Zero64
       THEN [outcome |-> "return", blocks |-> bl]
       ELSE IF next \in seen \cup {blockIndex}
       THEN [outcome |-> "hang", blocks |-> bl]
       ELSE DeleteLoopTagOnly(bl, msk, key, next, seen \cup {blockIndex})

\* faulty variant of DeleteLoop: the lane of the key is marked empty (0x0),
\* not deleted (0x1)
RECURSIVE DeleteLoopClearing(_, _, _, _, _)
DeleteLoopClearing(bl, msk, key, blockIndex, seen) ==
    LET block == bl[blockIndex]
        index == MatchLoop(block, key, TagMatch(block, TagOf(key)))
        next  == BitAndNat(blockIndex + 1, msk)
    IN IF index # -1
       THEN [outcome |-> "return",
             blocks |-> [bl EXCEPT ![blockIndex] = setControlByte(block, index, 0)]]
       ELSE IF ZeroByteMask(block.control) # Zero64
       THEN [outcome |-> "return", blocks |-> bl]
       ELSE IF next \in seen \cup {blockIndex}
       THEN [outcome |-> "hang", blocks |-> bl]
       ELSE DeleteLoopClearing(bl, msk, key, next, seen \cup {blockIndex})

RECURSIVE DeleteLoop(_, _, _, _, _)
DeleteLoop(bl, msk, key, blockIndex, seen) ==
    LET block == bl[blockIndex]
        index == MatchLoop(block, key, TagMatch(block, TagOf(key)))
        next  == BitAndNat(blockIndex + 1, msk)
    IN IF index # -1
       THEN [outcome |-> "return",
             blocks |-> [bl EXCEPT ![blockIndex] = setControlByte(block, index, 1)]]
       ELSE IF ZeroByteMask(block.control) # Zero64
       THEN [outcome |-> "return", blocks |-> bl]
       ELSE IF next \in seen \cup {blockIndex}
       THEN [outcome |-> "hang", blocks |-> bl]
       ELSE DeleteLoop(bl, msk, key, next, seen \cup {blockIndex})

Delete(bl, msk, key) == DeleteLoop(bl, msk, key, hashToBlock(msk, key), {})

\* ---------------------------------------------------------------- Rehash
\* faulty variant of SweepBlock: the lanes are compared with 0x0, not with
\* 0x1, so that the tombstones stay
RECURSIVE SweepBlockOfEmpty(_, _)
SweepBlockOfEmpty(block, i) ==
    IF i >= FixedBlockSize THEN block
    ELSE IF controlByte(block, i) = 0
    THEN SweepBlockOfEmpty(setControlByte(block, i, 0), i + 1)
    ELSE SweepBlockOfEmpty(block, i + 1)

\* phase 1: every 0x1 control byte becomes 0x0
RECURSIVE SweepBlock(_, _)
SweepBlock(block, i) ==
    IF i >= FixedBlockSize THEN block
    ELSE IF controlByte(block, i) = 1
    THEN SweepBlock(setControlByte(block, i, 0), i + 1)
    ELSE SweepBlock(block, i + 1)

\* faulty variant of SweepTombstones: only the first block is swept
SweepTombstonesFirstBlock(bl) ==
    [b \in DOMAIN bl |-> IF b = 0 THEN SweepBlock(bl[b], 0) ELSE bl[b]]

SweepTombstones(bl) == [b \in DOMAIN bl |-> SweepBlock(bl[b], 0)]

\* the lowest lane of block whose control byte is 0x0, or -1
RECURSIVE FirstEmptyLane(_, _)
FirstEmptyLane(block, j) ==
    IF j >= FixedBlockSize THEN -1
    ELSE IF controlByte(block, j) = 0 THEN j
    ELSE FirstEmptyLane(block, j + 1)

\* faulty variant of PlaceEntry: the control byte written is 0x80, without
\* the bits of key[0]
PlaceEntryWithoutKeyBits(block, j, key, value) ==
    [setControlByte(block, j, 128)
        EXCEPT !.keys[j] = key, !.values[j] = value]

\* write tag, key and value into lane j of block
PlaceEntry(block, j, key, value) ==
    [setControlByte(block, j, TagOf(key))
        EXCEPT !.keys[j] = key, !.values[j] = value]

ClearLane(bl, blockIndex, i) ==
    [bl EXCEPT ![blockIndex] = setControlByte(bl[blockIndex], i, 0)]

\* faulty variant of RehashLane: every entry is left in the lane it is in
RehashLaneStaying(rs, msk, blockIndex, i) == rs

\* faulty variant of RehashLane: an entry whose optimal block is full is
\* cleared from its lane without being put on the reinsert list
RehashLaneDropping(rs, msk, blockIndex, i) ==
    LET block == rs.blocks[blockIndex]
        key == block.keys[i]
        value == block.values[i]
        optimalBlockIndex == hashToBlock(msk, key)
        j == FirstEmptyLane(rs.blocks[optimalBlockIndex], 0)
    IN IF controlByte(block, i) = 0 THEN rs
       ELSE IF optimalBlockIndex = blockIndex THEN rs
       ELSE IF j # -1
       THEN [rs EXCEPT
               !.blocks = ClearLane(
                   [rs.blocks EXCEPT ![optimalBlockIndex] =
                       PlaceEntry(rs.blocks[optimalBlockIndex], j, key, value)],
                   blockIndex, i),
               !.since = rs.since + 1]
       ELSE [rs EXCEPT !.blocks = ClearLane(rs.blocks, blockIndex, i)]

\* The state of phase 2: the block array, the reinsert list and the counter
\* rehashedSinceLastReinsertAttempt.
\* One lane of the block scan loop.
RehashLane(rs, msk, blockIndex, i) ==
    LET block == rs.blocks[blockIndex]
        key == block.keys[i]
        value == block.values[i]
        optimalBlockIndex == hashToBlock(msk, key)
        j == FirstEmptyLane(rs.blocks[optimalBlockIndex], 0)
    IN IF controlByte(block, i) = 0 THEN rs
       ELSE IF optimalBlockIndex = blockIndex THEN rs
       ELSE IF j # -1
       THEN [rs EXCEPT
               !.blocks = ClearLane(
                   [rs.blocks EXCEPT ![optimalBlockIndex] =
                       PlaceEntry(rs.blocks[optimalBlockIndex], j, key, value)],
                   blockIndex, i),
               !.since = rs.since + 1]
       ELSE [rs EXCEPT
               !.list = Append(rs.list, [key |-> key, value |-> value]),
               !.blocks = ClearLane(rs.blocks, blockIndex, i)]

RECURSIVE RehashBlockScan(_, _, _, _)
RehashBlockScan(rs, msk, blockIndex, i) ==
    IF i >= FixedBlockSize THEN rs
    ELSE RehashBlockScan(RehashLane(rs, msk, blockIndex, i), msk, blockIndex, i + 1)

\* one pass over the reinsert list from element n on: entries whose optimal
\* block has an empty lane are placed there and removed from the list
RECURSIVE DrainList(_, _, _, _)
DrainList(bl, msk, list, n) ==
    IF n > Len(list) THEN [blocks |-> bl, list |-> list]
    ELSE LET entry == list[n]
             optimalBlockIndex == hashToBlock(msk, entry.key)
             j == FirstEmptyLane(bl[optimalBlockIndex], 0)
         IN IF j # -1
            THEN DrainList(
                   [bl EXCEPT ![optimalBlockIndex] =
                       PlaceEntry(bl[optimalBlockIndex], j, entry.key, entry.value)],
                   msk,
                   SubSeq(list, 1, n - 1) \o SubSeq(list, n + 1, Len(list)),
                   n)
            ELSE DrainList(bl, msk, list, n + 1)

\* the periodic drain after a block has been scanned
RehashDrain(rs, msk) ==
    IF rs.since > Len(rs.list)
    THEN LET d == DrainList(rs.blocks, msk, rs.list, 1)
         IN [blocks |-> d.blocks, list |-> d.list, since |-> 0]
    ELSE rs

RECURSIVE RehashScan(_, _, _)
RehashScan(rs, msk, blockIndex) ==
    IF blockIndex >= BlockCount(rs.blocks) THEN rs
    ELSE RehashScan(RehashDrain(RehashBlockScan(rs, msk, blockIndex, 0), msk),
                    msk, blockIndex + 1)

\* faulty variant of RehashReinsert: a remaining entry is placed in its
\* optimal block only, and overflow is reported when that block is full
RECURSIVE RehashReinsertIntoOptimalBlock(_, _, _)
RehashReinsertIntoOptimalBlock(bl, msk, list) ==
    IF Len(list) = 0 THEN [err |-> "nil", blocks |-> bl]
    ELSE LET entry == Head(list)
             optimalBlockIndex == hashToBlock(msk, entry.key)
             j == FirstEmptyLane(bl[optimalBlockIndex], 0)
         IN IF j = -1 THEN [err |-> "overflow", blocks |-> bl]
            ELSE RehashReinsertIntoOptimalBlock(
                   [bl EXCEPT ![optimalBlockIndex] =
                       PlaceEntry(bl[optimalBlockIndex], j, entry.key, entry.value)],
                   msk, Tail(list))

\* the final loop: Put every remaining entry, stop at the first error
RECURSIVE RehashReinsert(_, _, _)
RehashReinsert(bl, msk, list) ==
    IF Len(list) = 0 THEN [err |-> "nil", blocks |-> bl]
    ELSE LET entry == Head(list)
             p == Put(bl, msk, entry.key, entry.value)
         IN IF p.err # "nil" THEN [err |-> p.err, blocks |-> p.blocks]
            ELSE RehashReinsert(p.blocks, msk, Tail(list))

Rehash(bl, msk) ==
    LET rs == RehashScan([blocks |-> SweepTombstones(bl), list |-> <<>>, since |-> 0],
                         msk, 0)
    IN RehashReinsert(rs.blocks, msk, rs.list)

\* ------------------------------------------ Rehash re-inserting with Put
\* The variant of Rehash that re-inserts with Put while it scans, with the Get
\* and Put it is built on; Get and Put read the control bytes as one
\* little-endian word and probe as the ones above do.
RehashVariantGet(bl, msk, key) == Get(bl, msk, key)

RehashVariantPut(bl, msk, key, value) == Put(bl, msk, key, value)

\* the scan from the optimal block to the current block: FALSE when a block
\* before the current one has an empty lane
RECURSIVE RehashVariantPathFull(_, _, _, _, _)
RehashVariantPathFull(bl, msk, probeBlockIndex, currentBlockIndex, optimalBlockIndex) ==
    IF probeBlockIndex = currentBlockIndex THEN TRUE
    ELSE IF FirstEmptyLane(bl[probeBlockIndex], 0) # -1 THEN FALSE
    ELSE LET next == BitAndNat(probeBlockIndex + 1, msk)
         IN IF next = optimalBlockIndex THEN TRUE
            ELSE RehashVariantPathFull(bl, msk, next, currentBlockIndex, optimalBlockIndex)

\* isOptimal for the entry in lane i of block blockIndex
RehashVariantIsOptimal(bl, msk, blockIndex, i) ==
    LET optimalBlockIndex == hashToBlock(msk, bl[blockIndex].keys[i])
        pathFull == RehashVariantPathFull(bl, msk, optimalBlockIndex, blockIndex,
                                          optimalBlockIndex)
    IN IF pathFull /\ blockIndex = optimalBlockIndex
       THEN \A j \in 0 .. (i - 1) : controlByte(bl[blockIndex], j) # 0
       ELSE pathFull

\* one lane of the second pass; st holds the error returned so far and the
\* block array
RehashVariantLane(st, msk, blockIndex, i) ==
    LET block == st.blocks[blockIndex]
        key == block.keys[i]
        value == block.values[i]
        cleared == ClearLane(st.blocks, blockIndex, i)
        p == RehashVariantPut(cleared, msk, key, value)
    IN IF st.err # "nil" \/ controlByte(block, i) = 0 THEN st
       ELSE IF RehashVariantIsOptimal(st.blocks, msk, blockIndex, i) THEN st
       ELSE IF p.err # "nil"
       THEN [err |-> p.err,
             blocks |-> [p.blocks EXCEPT ![blockIndex] =
                            setControlByte(p.blocks[blockIndex], i, TagOf(key))]]
       ELSE [err |-> "nil", blocks |-> p.blocks]

\* the second pass from lane i of block blockIndex on
RECURSIVE RehashVariantScan(_, _, _, _)
RehashVariantScan(st, msk, blockIndex, i) ==
    IF blockIndex >= BlockCount(st.blocks) THEN st
    ELSE IF i >= FixedBlockSize THEN RehashVariantScan(st, msk, blockIndex + 1, 0)
    ELSE RehashVariantScan(RehashVariantLane(st, msk, blockIndex, i), msk, blockIndex, i + 1)

RehashVariant(bl, msk) ==
    RehashVariantScan([err |-> "nil", blocks |-> SweepTombstones(bl)], msk, 0, 0)

\* ------------------------------------------------------------------ Grow
\* faulty variant of Grow: the blocks are appended and the mask is set, but
\* the entries are not rehashed under the new mask
GrowWithoutRehash(bl, msk, newCapacity) ==
    LET newBlockCount == Nat64(calculateBlockCount(Word64(newCapacity)))
        currentBlockCount == BlockCount(bl)
        grown == [b \in 0 .. (newBlockCount - 1) |->
                    IF b < currentBlockCount THEN bl[b] ELSE ZeroBlock]
    IN IF newBlockCount <= currentBlockCount
       THEN [err |-> "nil", blocks |-> bl, mask |-> msk]
       ELSE [err |-> "nil", blocks |-> grown, mask |-> newBlockCount - 1]

\* faulty variant of Grow: no early return, the table is rehashed also when
\* no block is added
GrowAlwaysRehash(bl, msk, newCapacity) ==
    LET newBlockCount == Nat64(calculateBlockCount(Word64(newCapacity)))
        currentBlockCount == BlockCount(bl)
        count == IF newBlockCount <= currentBlockCount THEN currentBlockCount
                 ELSE newBlockCount
        grown == [b \in 0 .. (count - 1) |->
                    IF b < currentBlockCount THEN bl[b] ELSE ZeroBlock]
        r == Rehash(grown, count - 1)
    IN [err |-> r.err, blocks |-> r.blocks, mask |-> count - 1]

\* faulty variant of Grow: no early return, the block array is cut down
\* when fewer blocks are needed than the table has
GrowAlsoShrinking(bl, msk, newCapacity) ==
    LET newBlockCount == Nat64(calculateBlockCount(Word64(newCapacity)))
        currentBlockCount == BlockCount(bl)
        resized == [b \in 0 .. (newBlockCount - 1) |->
                      IF b < currentBlockCount THEN bl[b] ELSE ZeroBlock]
        r == Rehash(resized, newBlockCount - 1)
    IN IF newBlockCount = currentBlockCount
       THEN [err |-> "nil", blocks |-> bl, mask |-> msk]
       ELSE [err |-> r.err, blocks |-> r.blocks, mask |-> newBlockCount - 1]

\* faulty variant of Grow: m.mask is not set to the new block count - 1
GrowKeepingMask(bl, msk, newCapacity) ==
    LET newBlockCount == Nat64(calculateBlockCount(Word64(newCapacity)))
        currentBlockCount == BlockCount(bl)
        grown == [b \in 0 .. (newBlockCount - 1) |->
                    IF b < currentBlockCount THEN bl[b] ELSE ZeroBlock]
        r == Rehash(grown, msk)
    IN IF newBlockCount <= currentBlockCount
       THEN [err |-> "nil", blocks |-> bl, mask |-> msk]
       ELSE [err |-> r.err, blocks |-> r.blocks, mask |-> msk]

Grow(bl, msk, newCapacity) ==
    LET newBlockCount == Nat64(calculateBlockCount(Word64(newCapacity)))
        currentBlockCount == BlockCount(bl)
        grown == [b \in 0 .. (newBlockCount - 1) |->
                    IF b < currentBlockCount THEN bl[b] ELSE ZeroBlock]
        r == Rehash(grown, newBlockCount - 1)
    IN IF newBlockCount <= currentBlockCount
       THEN [err |-> "nil", blocks |-> bl, mask |-> msk]
       ELSE [err |-> r.err, blocks |-> r.blocks, mask |-> newBlockCount - 1]

\* ------------------------------------------------------------------ Iter
\* the (key, value) pairs Iter yields when run to completion, in order
\* faulty variant of IterFrom: only empty lanes are skipped, tombstones are
\* yielded
RECURSIVE IterFromWithTombstones(_, _, _)
IterFromWithTombstones(bl, blockIndex, i) ==
    IF blockIndex >= BlockCount(bl) THEN <<>>
    ELSE IF i >= FixedBlockSize THEN IterFromWithTombstones(bl, blockIndex + 1, 0)
    ELSE LET ctrl == controlByte(bl[blockIndex], i)
         IN IF ctrl # 0
            THEN <<[key |-> bl[blockIndex].keys[i], value |-> bl[blockIndex].values[i]]>>
                 \o IterFromWithTombstones(bl, blockIndex, i + 1)
            ELSE IterFromWithTombstones(bl, blockIndex, i + 1)

RECURSIVE IterFrom(_, _, _)
IterFrom(bl, blockIndex, i) ==
    IF blockIndex >= BlockCount(bl) THEN <<>>
    ELSE IF i >= FixedBlockSize THEN IterFrom(bl, blockIndex + 1, 0)
    ELSE LET ctrl == controlByte(bl[blockIndex], i)
         IN IF ctrl # 0 /\ ctrl # 1
            THEN <<[key |-> bl[blockIndex].keys[i], value |-> bl[blockIndex].values[i]]>>
                 \o IterFrom(bl, blockIndex, i + 1)
            ELSE IterFrom(bl, blockIndex, i + 1)

Iter(bl) == IterFrom(bl, 0, 0)

\* the pairs Iter yields to a consumer whose yield returns false on the n-th
\* pair (n >= 1): the iteration returns right after that pair
RECURSIVE IterUntilFrom(_, _, _, _)
IterUntilFrom(bl, blockIndex, i, n) ==
    IF blockIndex >= BlockCount(bl) THEN <<>>
    ELSE IF i >= FixedBlockSize THEN IterUntilFrom(bl, blockIndex + 1, 0, n)
    ELSE LET ctrl == controlByte(bl[blockIndex], i)
             pair == [key |-> bl[blockIndex].keys[i], value |-> bl[blockIndex].values[i]]
         IN IF ctrl # 0 /\ ctrl # 1
            THEN IF n = 1 THEN <<pair>>
                 ELSE <<pair>> \o IterUntilFrom(bl, blockIndex, i + 1, n - 1)
            ELSE IterUntilFrom(bl, blockIndex, i + 1, n)

IterUntil(bl, n) == IterUntilFrom(bl, 0, 0, n)

\* ------------------------------------------------------ WriteTo, ReadFrom
\* The value type V is taken to be uint64, and the machine little-endian; a
\* block then lies in memory as its control word, its 8 keys of 16 bytes and
\* its 8 values of 8 bytes, without padding.
KeySize == 16

ValueSize == 8

\* unsafe.Sizeof(m.blocks[0])
BlockSize == 8 + FixedBlockSize * KeySize + FixedBlockSize * ValueSize

KeyMemory(key) == Word64(key[1]) \o Word64(key[2])

BlockMemory(block) ==
    block.control
       \o KeyMemory(block.keys[0]) \o KeyMemory(block.keys[1])
       \o KeyMemory(block.keys[2]) \o KeyMemory(block.keys[3])
       \o KeyMemory(block.keys[4]) \o KeyMemory(block.keys[5])
       \o KeyMemory(block.keys[6]) \o KeyMemory(block.keys[7])
       \o Word64(block.values[0]) \o Word64(block.values[1])
       \o Word64(block.values[2]) \o Word64(block.values[3])
       \o Word64(block.values[4]) \o Word64(block.values[5])
       \o Word64(block.values[6]) \o Word64(block.values[7])

\* the memory of blocks b, b + 1, ... as bytes
RECURSIVE MemoryFrom(_, _)
MemoryFrom(bl, b) ==
    IF b >= BlockCount(bl) THEN <<>> ELSE BlockMemory(bl[b]) \o MemoryFrom(bl, b + 1)

\* the block that lies at offset off of memory mem
BlockAt(mem, off) ==
    [control |-> SubSeq(mem, off + 1, off + 8),
     keys |-> [i \in Lanes |->
                  <<Nat64(SubSeq(mem, off + 8 + KeySize * i + 1, off + 8 + KeySize * i + 8)),
                    Nat64(SubSeq(mem, off + 8 + KeySize * i + 9, off + 8 + KeySize * i + 16))>>],
     values |-> [i \in Lanes |->
                  Nat64(SubSeq(mem, off + 8 + FixedBlockSize * KeySize + ValueSize * i + 1,
                                    off + 8 + FixedBlockSize * KeySize + ValueSize * i + 8))]]

\* faulty variant of WriteTo: the total size is the size of one block, so only
\* the first block is written
WriteToFirstBlock(bl) ==
    IF BlockCount(bl) = 0 THEN [n |-> 0, err |-> "nil", written |-> <<>>]
    ELSE LET totalSize == BlockSize
             memory == SubSeq(MemoryFrom(bl, 0), 1, totalSize)
         IN [n |-> Len(memory), err |-> "nil", written |-> memory]

\* WriteTo into a buffer that takes every byte: the count and error returned,
\* and the bytes now in the buffer
WriteTo(bl) ==
    IF BlockCount(bl) = 0 THEN [n |-> 0, err |-> "nil", written |-> <<>>]
    ELSE LET totalSize == BlockSize * BlockCount(bl)
             memory == SubSeq(MemoryFrom(bl, 0), 1, totalSize)
         IN [n |-> Len(memory), err |-> "nil", written |-> memory]

\* faulty variant of ReadFrom: one Read call in place of io.ReadFull, which
\* reports no error when it has read some bytes but not all
ReadFromWithoutReadFull(bl, buf) ==
    IF BlockCount(bl) = 0 THEN [n |-> 0, err |-> "error", blocks |-> bl]
    ELSE LET totalSize == BlockSize * BlockCount(bl)
             read == IF Len(buf) >= totalSize THEN totalSize ELSE Len(buf)
             memory == SubSeq(buf, 1, read) \o SubSeq(MemoryFrom(bl, 0), read + 1, totalSize)
         IN [n |-> read,
             err |-> IF read = 0 THEN "EOF" ELSE "nil",
             blocks |-> [b \in DOMAIN bl |-> BlockAt(memory, BlockSize * b)]]

\* ReadFrom a reader that holds the bytes buf: io.ReadFull fills the memory
\* of the blocks from its start, and reports an error when buf ends early
ReadFrom(bl, buf) ==
    IF BlockCount(bl) = 0 THEN [n |-> 0, err |-> "error", blocks |-> bl]
    ELSE LET totalSize == BlockSize * BlockCount(bl)
             read == IF Len(buf) >= totalSize THEN totalSize ELSE Len(buf)
             memory == SubSeq(buf, 1, read) \o SubSeq(MemoryFrom(bl, 0), read + 1, totalSize)
         IN [n |-> read,
             err |-> IF read = totalSize THEN "nil"
                     ELSE IF read = 0 THEN "EOF" ELSE "ErrUnexpectedEOF",
             blocks |-> [b \in DOMAIN bl |-> BlockAt(memory, BlockSize * b)]]

\* ------------------------------------------------------------ FromString
\* w >> 33
ShiftRight33(w) ==
    LET v == ShiftRight64(w, 32)
    IN [i \in 1 .. 8 |-> (v[i] \div 2) + (IF i < 8 THEN 128 * (v[i + 1] % 2) ELSE 0)]

\* a * b modulo 2^64: the sum of the products of b with the bytes of a
MulWord64(a, b) ==
    LET s1 == Mul64(a[1], b)
        s2 == Add64(s1, ShiftLeft64(Mul64(a[2], b), 8))
        s3 == Add64(s2, ShiftLeft64(Mul64(a[3], b), 16))
        s4 == Add64(s3, ShiftLeft64(Mul64(a[4], b), 24))
        s5 == Add64(s4, ShiftLeft64(Mul64(a[5], b), 32))
        s6 == Add64(s5, ShiftLeft64(Mul64(a[6], b), 40))
        s7 == Add64(s6, ShiftLeft64(Mul64(a[7], b), 48))
    IN Add64(s7, ShiftLeft64(Mul64(a[8], b), 56))

\* 0x9e3779b97f4a7c15
Golden64 == <<21, 124, 74, 127, 185, 121, 55, 158>>

\* binary.LittleEndian.PutUint64(k[offset : offset + 8], w), k a 16-byte key
PutUint64(k, offset, w) ==
    [i \in 1 .. KeySize |->
        IF offset < i /\ i <= offset + 8 THEN w[i - offset] ELSE k[i]]

\* the second hash FromString derives from the first
Mix64(h) ==
    LET h2 == MulWord64(Xor64(h, ShiftRight33(h)), Golden64)
    IN Xor64(h2, ShiftRight33(h2))

\* faulty variant of FromString: the second hash is written over the first,
\* bytes 8..15 of the key are left as they were
FromStringOverFirstHalf(k, h) ==
    PutUint64(PutUint64(k, 0, h), 0, Mix64(h))

\* the key FromString leaves in k, h being xxhash.Sum64 of the text
FromString(k, h) ==
    PutUint64(PutUint64(k, 0, h), 8, Mix64(h))

\* ------------------------------------------------------------ CollectInfo
\* A float32 that is zero or positive and normal is [m, e] with the value
\* m * 2^e, 2^23 <= m < 2^24, and m = 0 (and e = 0) for zero.
Float32Zero == [m |-> 0, e |-> 0]

RECURSIVE BitLen(_)
BitLen(n) == IF n = 0 THEN 0 ELSE 1 + BitLen(n \div 2)

\* the significand q after rounding, with the exponent e it then has
Float32Rounded(q, e) ==
    IF q = Pow2(24) THEN [m |-> Pow2(23), e |-> e + 1] ELSE [m |-> q, e |-> e]

\* float32(n) for an unsigned integer n below 2^31: round to nearest, ties
\* to even
Float32FromUint(n) ==
    IF n = 0 THEN Float32Zero
    ELSE IF BitLen(n) <= 24
    THEN [m |-> n * Pow2(24 - BitLen(n)), e |-> BitLen(n) - 24]
    ELSE LET shift == BitLen(n) - 24
             q == n \div Pow2(shift)
             r == n % Pow2(shift)
             half == Pow2(shift - 1)
             up == r > half \/ (r = half /\ q % 2 = 1)
         IN Float32Rounded(IF up THEN q + 1 ELSE q, shift)

\* n more bits of the quotient of r by d, r < d: the bits and the remainder
RECURSIVE DivideBits(_, _, _, _)
DivideBits(r, d, n, q) ==
    IF n = 0 THEN [q |-> q, r |-> r]
    ELSE IF 2 * r >= d THEN DivideBits(2 * r - d, d, n - 1, 2 * q + 1)
    ELSE DivideBits(2 * r, d, n - 1, 2 * q)

\* x / y in float32, y # 0: the quotient of the significands to 24 bits,
\* rounded to nearest, ties to even
Float32Div(x, y) ==
    IF x.m = 0 THEN Float32Zero
    ELSE LET whole == x.m >= y.m
             d == IF whole THEN DivideBits(x.m - y.m, y.m, 23, 1)
                  ELSE DivideBits(x.m, y.m, 24, 0)
             e == IF whole THEN x.e - y.e - 23 ELSE x.e - y.e - 24
             up == 2 * d.r > y.m \/ (2 * d.r = y.m /\ d.q % 2 = 1)
         IN Float32Rounded(IF up THEN d.q + 1 ELSE d.q, e)

\* x >= y in float32
Float32GreaterEq(x, y) ==
    IF y.m = 0 THEN TRUE
    ELSE IF x.m = 0 THEN FALSE
    ELSE x.e > y.e \/ (x.e = y.e /\ x.m >= y.m)

\* the constants 0.75 and 0.20 as float32
Float32Of075 == Float32Div(Float32FromUint(3), Float32FromUint(4))

Float32Of020 == Float32Div(Float32FromUint(1), Float32FromUint(5))

\* the factors and recommendations of CollectInfo for the lane counts
InfoOf(storedEntities, tombstones, totalSlots) ==
    LET loadFactor ==
            IF totalSlots > 0
            THEN Float32Div(Float32FromUint(storedEntities), Float32FromUint(totalSlots))
            ELSE Float32Zero
        tombstoneFactor ==
            IF totalSlots > 0
            THEN Float32Div(Float32FromUint(tombstones), Float32FromUint(totalSlots))
            ELSE Float32Zero
    IN [LoadFactor |-> loadFactor,
        TombstoneFactor |-> tombstoneFactor,
        RecommendGrow |-> Float32GreaterEq(loadFactor, Float32Of075),
        RecommendRehash |-> Float32GreaterEq(tombstoneFactor, Float32Of020)]

\* the counting loops of CollectInfo from lane i of block blockIndex on
RECURSIVE CountLanes(_, _, _, _, _)
CountLanes(bl, blockIndex, i, storedEntities, tombstones) ==
    IF blockIndex >= BlockCount(bl)
    THEN [storedEntities |-> storedEntities, tombstones |-> tombstones]
    ELSE IF i >= FixedBlockSize
    THEN CountLanes(bl, blockIndex + 1, 0, storedEntities, tombstones)
    ELSE LET ctrl == controlByte(bl[blockIndex], i)
         IN IF ctrl = 1
            THEN CountLanes(bl, blockIndex, i + 1, storedEntities, tombstones + 1)
            ELSE IF ctrl # 0
            THEN CountLanes(bl, blockIndex, i + 1, storedEntities + 1, tombstones)
            ELSE CountLanes(bl, blockIndex, i + 1, storedEntities, tombstones)

CollectInfo(bl) ==
    LET n == CountLanes(bl, 0, 0, 0, 0)
    IN InfoOf(n.storedEntities, n.tombstones, Capacity(bl))

\* ============================================================ state machine
VARIABLES
    blocks,     \* m.blocks
    mask,       \* m.mask
    last,       \* the last call that changed the table, failed or hung
    shadow,     \* key -> value of its last successful Put, NoVal once deleted
    fresh,      \* per key class, the number of keys used so far
    runs,       \* class of the key taken into use last, number of class runs
    counts      \* number of Deletes of stored keys so far

vars == <<blocks, mask, last, shadow, fresh, runs, counts>>

NoVal == -1

\* capacities passed to NewFixedBlockMap and Grow
Capacities ==
    {1} \cup {8 * (n - 1) : n \in 2 .. MaxBlocks} \cup {8 * (n - 1) + 1 : n \in 2 .. MaxBlocks}

\* hit: the key of the call was stored when the call was made
Call(op, res, hit) == [op |-> op, res |-> res, hit |-> hit]

\* a call that never returns leaves the caller stuck in it
Running == last.res # "hang"

\* keys of a class differ in bytes 8..15 only, which the code uses in key
\* comparisons only: they are taken into use in ascending order
IsFresh(key) == key[2] = fresh[key[1]]

Usable(key) == key[2] <= fresh[key[1]]

Use(key) == IF IsFresh(key) THEN [fresh EXCEPT ![key[1]] = @ + 1] ELSE fresh

\* Put takes the absent keys of a class in ascending order: the absent key
\* a Put may store is the lowest absent key of its class
Takeable(key) ==
    \/ shadow[key] # NoVal
    \/ \A j \in 0 .. (key[2] - 1) : shadow[<<key[1], j>>] # NoVal

\* the keys arrive in at most MaxRuns runs of keys of one class
RunsAfter(key) ==
    IF ~IsFresh(key) \/ key[1] = runs.class THEN runs
    ELSE [class |-> key[1], n |-> runs.n + 1]

Init ==
    \E capacity \in Capacities :
        \E m \in {NewFixedBlockMap(capacity)} :
           /\ blocks = m.blocks
           /\ mask = m.mask
           /\ last = Call("New", "nil", FALSE)
           /\ shadow = [k \in Keys |-> NoVal]
           /\ fresh = [c \in KeyClasses |-> 0]
           /\ runs = [class |-> -1, n |-> 0]
           /\ counts = [deletes |-> 0]

\* last is set by every call that changes the table, fails or hangs
Effect(op, res, hit, bl) ==
    IF bl # blocks \/ res \in {"overflow", "hang"} THEN Call(op, res, hit) ELSE last

GetCall(key) ==
    /\ Running
    /\ Usable(key)
    /\ last' = Effect("Get", Get(blocks, mask, key).outcome, shadow[key] # NoVal, blocks)
    /\ UNCHANGED <<blocks, mask, shadow, fresh, runs, counts>>

PutCall(key, value) ==
    /\ Running
    /\ Usable(key)
    /\ Takeable(key)
    /\ RunsAfter(key).n <= MaxRuns
    /\ \E p \in {Put(blocks, mask, key, value)} :
          /\ blocks' = p.blocks
          /\ last' = Effect("Put", p.err, shadow[key] # NoVal, p.blocks)
          /\ shadow' = IF p.err = "nil" THEN [shadow EXCEPT ![key] = value] ELSE shadow
          /\ fresh' = IF p.err = "nil" THEN Use(key) ELSE fresh
          /\ runs' = IF p.err = "nil" THEN RunsAfter(key) ELSE runs
    /\ UNCHANGED <<mask, counts>>

DeleteCall(key) ==
    /\ Running
    /\ Usable(key)
    /\ shadow[key] # NoVal => counts.deletes < MaxDeletes
    /\ \E d \in {Delete(blocks, mask, key)} :
          /\ blocks' = d.blocks
          /\ last' = Effect("Delete", d.outcome, shadow[key] # NoVal, d.blocks)
          /\ shadow' = IF d.outcome = "return" THEN [shadow EXCEPT ![key] = NoVal]
                       ELSE shadow
    /\ counts' = IF shadow[key] # NoVal THEN [counts EXCEPT !.deletes = @ + 1]
                 ELSE counts
    /\ UNCHANGED <<mask, fresh, runs>>

RehashCall ==
    /\ Running
    /\ \E r \in {Rehash(blocks, mask)} :
          /\ blocks' = r.blocks
          /\ last' = Effect("Rehash", r.err, FALSE, r.blocks)
    /\ UNCHANGED <<mask, shadow, fresh, runs, counts>>

GrowCall(newCapacity) ==
    /\ Running
    /\ \E g \in {Grow(blocks, mask, newCapacity)} :
          /\ blocks' = g.blocks
          /\ mask' = g.mask
          /\ last' = Effect("Grow", g.err, FALSE, g.blocks)
    /\ UNCHANGED <<shadow, fresh, runs, counts>>

Next ==
    \/ \E key \in Keys : GetCall(key)
    \/ \E key \in Keys : \E value \in ValuesFor(key) : PutCall(key, value)
    \/ \E key \in Keys : DeleteCall(key)
    \/ RehashCall
    \/ \E newCapacity \in Capacities : GrowCall(newCapacity)

Spec == Init /\ [][Next]_vars

\* ----------------------------------------- specification of the functions
\* calculateBlockCount, NewFixedBlockMap and FromString are called with
\* arguments the table specification cannot reach. Here blocks and mask are
\* the map of the last NewFixedBlockMap call, and last records the last call:
\* its argument and result (zero where it has none), the contents of the
\* receiving key of FromString before (prev) and after (key) the call, and
\* the hash primitive (sum64).
MaxNewCapacity == 17

MaxBelowTop == 9

EdgeBits == {3, 4, 5, 31, 32, 33, 60, 61, 62, 63}

CapacityWords ==
    {Word64(c) : c \in 0 .. MaxNewCapacity}
       \cup {OneShiftLeft64(n) : n \in EdgeBits}
       \cup {Sub64(OneShiftLeft64(n), Word64(1)) : n \in EdgeBits}
       \cup {Add64(OneShiftLeft64(n), Word64(1)) : n \in EdgeBits}
       \cup {Sub64(Zero64, Word64(n)) : n \in 1 .. MaxBelowTop}

Texts == {"", "a"}

\* values xxhash.Sum64 may give
HashWords == {Zero64, Ones64, Golden64, <<1, 2, 3, 4, 5, 6, 7, 8>>}

\* contents of the receiving key before the first call
PrevKeys == {[i \in 1 .. KeySize |-> 0], [i \in 1 .. KeySize |-> 255]}

FunctionCall(op, capacity, blockCount, text, key) ==
    [op |-> op, capacity |-> capacity, blockCount |-> blockCount, text |-> text,
     prev |-> last.key, key |-> key, sum64 |-> last.sum64]

InitFunctions ==
    \E m \in {NewFixedBlockMap(0)} :
       /\ blocks = m.blocks
       /\ mask = m.mask
       /\ \E key \in PrevKeys : \E sum64 \in [Texts -> HashWords] :
             last = [op |-> "New", capacity |-> Zero64,
                     blockCount |-> Word64(BlockCount(m.blocks)), text |-> "",
                     prev |-> key, key |-> key, sum64 |-> sum64]
       /\ shadow = [k \in Keys |-> NoVal]
       /\ fresh = [c \in KeyClasses |-> 0]
       /\ runs = [class |-> -1, n |-> 0]
       /\ counts = [deletes |-> 0]

calculateBlockCountCall(capacity) ==
    /\ last' = FunctionCall("calculateBlockCount", capacity,
                            calculateBlockCount(capacity), "", last.key)
    /\ UNCHANGED <<blocks, mask, shadow, fresh, runs, counts>>

NewFixedBlockMapCall(capacity) ==
    \E m \in {NewFixedBlockMap(capacity)} :
       /\ blocks' = m.blocks
       /\ mask' = m.mask
       /\ last' = FunctionCall("NewFixedBlockMap", Word64(capacity),
                               Word64(BlockCount(m.blocks)), "", last.key)
       /\ UNCHANGED <<shadow, fresh, runs, counts>>

FromStringCall(text) ==
    /\ last' = FunctionCall("FromString", Zero64, Zero64, text,
                            FromString(last.key, last.sum64[text]))
    /\ UNCHANGED <<blocks, mask, shadow, fresh, runs, counts>>

NextFunctions ==
    \/ \E capacity \in CapacityWords : calculateBlockCountCall(capacity)
    \/ \E capacity \in 0 .. MaxNewCapacity : NewFixedBlockMapCall(capacity)
    \/ \E text \in Texts : FromStringCall(text)

SpecFunctions == InitFunctions /\ [][NextFunctions]_vars

\* --------------------------------------------- specification of CollectInfo
\* CollectInfo depends on the table through three numbers only: the lanes it
\* counts as stored, the lanes it counts as tombstones, and Capacity(). Tables
\* of millions of lanes are given here by these numbers, which last records
\* with the result of the call; blocks and mask stay those of a new map.
InfoMargin == 3

\* the block counts 2^n of the tables
InfoShifts == {0, 1, 2, 20, 21, 22, 23, 24, 25}

StoredCounts(totalSlots) ==
    {n \in {0, totalSlots}
              \cup {(3 * totalSlots) \div 4 + d : d \in -InfoMargin .. InfoMargin} :
        0 <= n /\ n <= totalSlots}

TombstoneCounts(totalSlots) ==
    {n \in {0} \cup {totalSlots \div 5 + d : d \in -InfoMargin .. InfoMargin + 1} :
        0 <= n /\ n <= totalSlots}

InfoCall(op, storedEntities, tombstones, totalSlots) ==
    [op |-> op, storedEntities |-> storedEntities, tombstones |-> tombstones,
     totalSlots |-> totalSlots,
     info |-> InfoOf(storedEntities, tombstones, totalSlots)]

InitInfo ==
    \E m \in {NewFixedBlockMap(0)} :
       /\ blocks = m.blocks
       /\ mask = m.mask
       /\ last = InfoCall("New", 0, 0, Capacity(m.blocks))
       /\ shadow = [k \in Keys |-> NoVal]
       /\ fresh = [c \in KeyClasses |-> 0]
       /\ runs = [class |-> -1, n |-> 0]
       /\ counts = [deletes |-> 0]

CollectInfoCall(totalSlots, storedEntities, tombstones) ==
    /\ storedEntities + tombstones <= totalSlots
    /\ last' = InfoCall("CollectInfo", storedEntities, tombstones, totalSlots)
    /\ UNCHANGED <<blocks, mask, shadow, fresh, runs, counts>>

NextInfo ==
    \E n \in InfoShifts :
        \E storedEntities \in StoredCounts(FixedBlockSize * Pow2(n)) :
            \E tombstones \in TombstoneCounts(FixedBlockSize * Pow2(n)) :
                CollectInfoCall(FixedBlockSize * Pow2(n), storedEntities, tombstones)

SpecInfo == InitInfo /\ [][NextInfo]_vars

\* ------------------------------------- specification of the lane matching
\* The two word-parallel tests of Get, Put and Delete are applied to control
\* words the table specification cannot reach: every word of 8 lanes out of
\* MatchBytes, with every tag of MatchTags. last holds the control word and
\* the tag (chosen at the start) and, once a test was applied, its result.
MatchBytes == {0, 1, 128, 129}

MatchTags == {1, 128, 129}

MatchCall(op, control, tag, result) ==
    [op |-> op, control |-> control, tag |-> tag, result |-> result]

InitMatch ==
    \E m \in {NewFixedBlockMap(0)} :
       /\ blocks = m.blocks
       /\ mask = m.mask
       /\ \E control \in [1 .. 8 -> MatchBytes] : \E tag \in MatchTags :
             last = MatchCall("New", control, tag, Zero64)
       /\ shadow = [k \in Keys |-> NoVal]
       /\ fresh = [c \in KeyClasses |-> 0]
       /\ runs = [class |-> -1, n |-> 0]
       /\ counts = [deletes |-> 0]

\* result := (match - 0x01..01) & ^match & 0x80..80 for match := control ^ target
TagMatchCall ==
    /\ last.op = "New"
    /\ last' = MatchCall("TagMatch", last.control, last.tag,
                         TagMatch([ZeroBlock EXCEPT !.control = last.control], last.tag))
    /\ UNCHANGED <<blocks, mask, shadow, fresh, runs, counts>>

\* (control - 0x01..01) & ^control & 0x80..80
EmptyMatchCall ==
    /\ last.op = "New"
    /\ last' = MatchCall("EmptyMatch", last.control, last.tag, ZeroByteMask(last.control))
    /\ UNCHANGED <<blocks, mask, shadow, fresh, runs, counts>>

NextMatch == TagMatchCall \/ EmptyMatchCall

SpecMatch == InitMatch /\ [][NextMatch]_vars

\* ------------------------------ the Rehash that re-inserts with Put, in use
\* A table of four blocks under the Put, Delete, Get and Rehash of the
\* variant. The keys have the home blocks 2 and 3, so that the probe chain
\* of a key of block 3 wraps around to block 0.
VariantCapacity == 4 * FixedBlockSize

VariantClasses == {2, 3}

VariantClassSize(c) == IF c = 2 THEN VariantKeys2 ELSE VariantKeys3

VariantKeys == {k \in VariantClasses \X (0 .. 63) : k[2] < VariantClassSize(k[1])}

RehashVariantDelete(bl, msk, key) == Delete(bl, msk, key)

InitVariant ==
    \E m \in {NewFixedBlockMap(VariantCapacity)} :
       /\ blocks = m.blocks
       /\ mask = m.mask
       /\ last = Call("New", "nil", FALSE)
       /\ shadow = [k \in VariantKeys |-> NoVal]
       /\ fresh = [c \in VariantClasses |-> 0]
       /\ runs = [class |-> -1, n |-> 0]
       /\ counts = [deletes |-> 0]

\* Put of the next key of a class, before the table has been rehashed
VariantPutCall(key) ==
    /\ last.op \in {"New", "Put", "Delete"}
    /\ IsFresh(key)
    /\ RunsAfter(key).n <= MaxRuns
    /\ \E p \in {RehashVariantPut(blocks, mask, key, ValueOf(key, 1))} :
          /\ blocks' = p.blocks
          /\ last' = Call("Put", p.err, FALSE)
          /\ shadow' = IF p.err = "nil" THEN [shadow EXCEPT ![key] = ValueOf(key, 1)]
                       ELSE shadow
          /\ fresh' = IF p.err = "nil" THEN Use(key) ELSE fresh
          /\ runs' = IF p.err = "nil" THEN RunsAfter(key) ELSE runs
    /\ UNCHANGED <<mask, counts>>

\* Delete of a stored key, the first of its class
VariantDeleteCall(key) ==
    /\ last.op \in {"New", "Put", "Delete"}
    /\ key[2] < MarkedKeys
    /\ shadow[key] # NoVal
    /\ counts.deletes < MaxDeletes
    /\ \E d \in {RehashVariantDelete(blocks, mask, key)} :
          /\ blocks' = d.blocks
          /\ last' = Call("Delete", d.outcome, TRUE)
          /\ shadow' = [shadow EXCEPT ![key] = NoVal]
    /\ counts' = [counts EXCEPT !.deletes = @ + 1]
    /\ UNCHANGED <<mask, fresh, runs>>

VariantRehashCall ==
    /\ last.op \in {"Put", "Delete"}
    /\ \E r \in {RehashVariant(blocks, mask)} :
          /\ blocks' = r.blocks
          /\ last' = Call("Rehash", r.err, FALSE)
    /\ UNCHANGED <<mask, shadow, fresh, runs, counts>>

\* Get of a key after the table has been rehashed
VariantGetCall(key) ==
    /\ last.op \in {"Rehash", "Get"}
    /\ last.res # "hang"
    /\ last' = Call("Get", RehashVariantGet(blocks, mask, key).outcome, shadow[key] # NoVal)
    /\ UNCHANGED <<blocks, mask, shadow, fresh, runs, counts>>

NextVariant ==
    \/ \E key \in VariantKeys : VariantPutCall(key)
    \/ \E key \in VariantKeys : VariantDeleteCall(key)
    \/ VariantRehashCall
    \/ \E key \in VariantKeys : VariantGetCall(key)

SpecVariant == InitVariant /\ [][NextVariant]_vars

\* ------------------------------------------------- Rehash, step by step
\* Phase 2 of Rehash as the steps it takes on a table of four blocks: one
\* step per lane of the scan, per element of a periodic drain and per Put of
\* the final loop. The keys have the home blocks 2 and 3.
RehashClassSize(c) == IF c = 2 THEN RehashKeys2 ELSE RehashKeys3

RehashKeys == {k \in VariantClasses \X (0 .. 63) : k[2] < RehashClassSize(k[1])}

\* faulty variant of DrainStep: an entry that is placed in its optimal block
\* stays on the reinsert list
DrainStepKeepingElement(bl, msk, list, n) ==
    LET entry == list[n]
        optimalBlockIndex == hashToBlock(msk, entry.key)
        j == FirstEmptyLane(bl[optimalBlockIndex], 0)
    IN IF j # -1
       THEN [blocks |-> [bl EXCEPT ![optimalBlockIndex] =
                            PlaceEntry(bl[optimalBlockIndex], j, entry.key, entry.value)],
             list |-> list,
             n |-> n + 1,
             placed |-> TRUE]
       ELSE [blocks |-> bl, list |-> list, n |-> n + 1, placed |-> FALSE]

\* element n of the reinsert list in a periodic drain: placed in its optimal
\* block and removed from the list when that block has an empty lane
DrainStep(bl, msk, list, n) ==
    LET entry == list[n]
        optimalBlockIndex == hashToBlock(msk, entry.key)
        j == FirstEmptyLane(bl[optimalBlockIndex], 0)
    IN IF j # -1
       THEN [blocks |-> [bl EXCEPT ![optimalBlockIndex] =
                            PlaceEntry(bl[optimalBlockIndex], j, entry.key, entry.value)],
             list |-> SubSeq(list, 1, n - 1) \o SubSeq(list, n + 1, Len(list)),
             n |-> n,
             placed |-> TRUE]
       ELSE [blocks |-> bl, list |-> list, n |-> n + 1, placed |-> FALSE]

\* where Rehash stands: the step it has taken, the loop it is in, the block
\* and lane or list element that is next, the reinsert list, the counter
\* rehashedSinceLastReinsertAttempt, the error it returns and the blocks it
\* was called on
RehashAt(op, did, pc, blockIndex, i, list, since, n, err, before) ==
    [op |-> op, did |-> did, pc |-> pc, blockIndex |-> blockIndex, i |-> i,
     list |-> list, since |-> since, n |-> n, err |-> err, before |-> before]

NotInRehash(op, bl) == RehashAt(op, "", "idle", 0, 0, <<>>, 0, 0, "nil", bl)

\* what the scan does with lane i of block blockIndex
LaneDoes(bl, msk, blockIndex, i) ==
    LET block == bl[blockIndex]
        optimalBlockIndex == hashToBlock(msk, block.keys[i])
    IN IF controlByte(block, i) = 0 THEN "skip"
       ELSE IF optimalBlockIndex = blockIndex THEN "home"
       ELSE IF FirstEmptyLane(bl[optimalBlockIndex], 0) # -1 THEN "move"
       ELSE "defer"

\* the position after block blockIndex has been scanned and drained
AfterBlock(bl, blockIndex) ==
    IF blockIndex + 1 < BlockCount(bl)
    THEN [pc |-> "scan", blockIndex |-> blockIndex + 1]
    ELSE [pc |-> "final", blockIndex |-> blockIndex]

InitRehash ==
    \E m \in {NewFixedBlockMap(VariantCapacity)} :
       /\ blocks = m.blocks
       /\ mask = m.mask
       /\ last = NotInRehash("New", m.blocks)
       /\ shadow = [k \in RehashKeys |-> NoVal]
       /\ fresh = [c \in VariantClasses |-> 0]
       /\ runs = [class |-> -1, n |-> 0]
       /\ counts = [deletes |-> 0]

\* Put of the next key of a class
StepPutCall(key) ==
    /\ last.op \in {"New", "Put"}
    /\ IsFresh(key)
    /\ RunsAfter(key).n <= MaxRuns
    /\ \E p \in {Put(blocks, mask, key, ValueOf(key, 1))} :
          /\ p.err = "nil"
          /\ blocks' = p.blocks
          /\ last' = NotInRehash("Put", p.blocks)
    /\ shadow' = [shadow EXCEPT ![key] = ValueOf(key, 1)]
    /\ fresh' = Use(key)
    /\ runs' = RunsAfter(key)
    /\ UNCHANGED <<mask, counts>>

\* Delete of one of the first keys of home block 2, after the Puts
StepDeleteCall(key) ==
    /\ last.op \in {"Put", "Delete"}
    /\ key[1] = 2
    /\ key[2] < RehashDeletes
    /\ shadow[key] # NoVal
    /\ \E d \in {Delete(blocks, mask, key)} :
          /\ d.outcome = "return"
          /\ blocks' = d.blocks
          /\ last' = NotInRehash("Delete", d.blocks)
    /\ shadow' = [shadow EXCEPT ![key] = NoVal]
    /\ counts' = [counts EXCEPT !.deletes = @ + 1]
    /\ UNCHANGED <<mask, fresh, runs>>

\* Rehash is called: phase 1 turns the tombstones into empty lanes
RehashSweepStep ==
    /\ last.op \in {"Put", "Delete"}
    /\ blocks' = SweepTombstones(blocks)
    /\ last' = RehashAt("Rehash", "sweep", "scan", 0, 0, <<>>, 0, 0, "nil", blocks)
    /\ UNCHANGED <<mask, shadow, fresh, runs, counts>>

\* one lane of the scan; after the last lane of a block the periodic drain
\* begins when rehashedSinceLastReinsertAttempt exceeds the list length
RehashLaneStep ==
    /\ last.op = "Rehash"
    /\ last.pc = "scan"
    /\ LET rs == RehashLane([blocks |-> blocks, list |-> last.list, since |-> last.since],
                            mask, last.blockIndex, last.i)
           did == LaneDoes(blocks, mask, last.blockIndex, last.i)
           after == AfterBlock(blocks, last.blockIndex)
       IN /\ blocks' = rs.blocks
          /\ last' =
                IF last.i + 1 < FixedBlockSize
                THEN [last EXCEPT !.did = did, !.i = last.i + 1,
                                  !.list = rs.list, !.since = rs.since]
                ELSE IF rs.since > Len(rs.list) /\ Len(rs.list) > 0
                THEN [last EXCEPT !.did = did, !.pc = "drain", !.i = 0, !.n = 1,
                                  !.list = rs.list, !.since = rs.since]
                ELSE [last EXCEPT !.did = did, !.pc = after.pc,
                                  !.blockIndex = after.blockIndex, !.i = 0,
                                  !.list = rs.list,
                                  !.since = IF rs.since > Len(rs.list) THEN 0 ELSE rs.since]
    /\ UNCHANGED <<mask, shadow, fresh, runs, counts>>

\* one element of the reinsert list in a periodic drain; after the last
\* element the counter is set to zero and the scan goes on
RehashDrainStep ==
    /\ last.op = "Rehash"
    /\ last.pc = "drain"
    /\ LET d == DrainStep(blocks, mask, last.list, last.n)
           after == AfterBlock(blocks, last.blockIndex)
       IN /\ blocks' = d.blocks
          /\ last' =
                IF d.n <= Len(d.list)
                THEN [last EXCEPT !.did = IF d.placed THEN "place" ELSE "keep",
                                  !.list = d.list, !.n = d.n]
                ELSE [last EXCEPT !.did = IF d.placed THEN "place" ELSE "keep",
                                  !.pc = after.pc, !.blockIndex = after.blockIndex,
                                  !.list = d.list, !.n = 0, !.since = 0]
    /\ UNCHANGED <<mask, shadow, fresh, runs, counts>>

\* the final loop takes the first element off the list and Puts it
RehashFinalStep ==
    /\ last.op = "Rehash"
    /\ last.pc = "final"
    /\ Len(last.list) > 0
    /\ LET entry == Head(last.list)
           p == Put(blocks, mask, entry.key, entry.value)
       IN /\ blocks' = p.blocks
          /\ last' = IF p.err # "nil"
                     THEN [last EXCEPT !.did = "put", !.pc = "done", !.err = p.err,
                                       !.list = Tail(last.list)]
                     ELSE [last EXCEPT !.did = "put", !.list = Tail(last.list)]
    /\ UNCHANGED <<mask, shadow, fresh, runs, counts>>

\* the list is empty: Rehash returns nil
RehashReturnStep ==
    /\ last.op = "Rehash"
    /\ last.pc = "final"
    /\ Len(last.list) = 0
    /\ last' = [last EXCEPT !.did = "return", !.pc = "done"]
    /\ UNCHANGED <<blocks, mask, shadow, fresh, runs, counts>>

NextRehash ==
    \/ \E key \in RehashKeys : StepPutCall(key)
    \/ \E key \in RehashKeys : StepDeleteCall(key)
    \/ RehashSweepStep
    \/ RehashLaneStep
    \/ RehashDrainStep
    \/ RehashFinalStep
    \/ RehashReturnStep

SpecRehash == InitRehash /\ [][NextRehash]_vars

\* =============================================================== properties
\* Get reports a handle for key
Found(bl, msk, key) == Get(bl, msk, key).outcome = "found"

\* key has been Put and not been deleted since
Stored(key) == shadow[key] # NoVal

\* some lane of the table has control byte c
HasLane(bl, c) == \E b \in DOMAIN bl : \E i \in Lanes : controlByte(bl[b], i) = c

\* the number of occupied lanes, as Iter counts them
Occupied(bl) == Len(Iter(bl))

\* Wherever Get returns, it agrees with the history of Put and Delete.
GetAgreesWhereItReturns ==
    \A key \in Keys :
        LET r == Get(blocks, mask, key)
        IN IF Stored(key)
           THEN r.outcome = "found" /\ blocks[r.block].values[r.lane] = shadow[key]
           ELSE r.outcome # "found"

\* C1: Get(k) reports found, with a handle to the value of the last
\* successful Put(k, v), exactly when k has been Put and not deleted since;
\* for every other key it reports not found.
C1_GetFollowsPutAndDelete ==
    \A key \in Keys :
        LET r == Get(blocks, mask, key)
        IN IF Stored(key)
           THEN r.outcome = "found" /\ blocks[r.block].values[r.lane] = shadow[key]
           ELSE r.outcome = "notfound"

\* C2: Put(k, v) of a key the table stores returns nil and replaces the
\* value in the lane of k, and nothing else: no control byte, no key, no other
\* value, not the mask and not the number of occupied lanes.
C2_PutOfStoredKeyReplacesValueOnly ==
    LET occupied == Occupied(blocks)
    IN \A key \in Keys : \A value \in ValuesFor(key) :
          LET r == Get(blocks, mask, key)
              p == Put(blocks, mask, key, value)
          IN r.outcome = "found" =>
                /\ p.err = "nil"
                /\ p.blocks = [blocks EXCEPT ![r.block].values[r.lane] = value]
                /\ Occupied(p.blocks) = occupied
                /\ GetValue(p.blocks, mask, key) = value

\* a Put has replaced the value of a stored key by its second value
C2_Witness ==
    /\ last = Call("Put", "nil", TRUE)
    /\ \E key \in Keys :
          /\ shadow[key] = ValueOf(key, 2)
          /\ GetValue(blocks, mask, key) = ValueOf(key, 2)
    /\ Occupied(blocks) >= 2

\* C3: after Delete(k) of a stored key, Get(k) reports not found, and
\* every other stored key is still found with the value it had.
C3_DeleteRemovesOnlyItsKey ==
    \A key \in Keys :
        Found(blocks, mask, key) =>
            LET d == Delete(blocks, mask, key)
            IN /\ d.outcome = "return"
               /\ Get(d.blocks, mask, key).outcome = "notfound"
               /\ \A other \in Keys \ {key} :
                     Found(blocks, mask, other) =>
                        /\ Found(d.blocks, mask, other)
                        /\ GetValue(d.blocks, mask, other) =
                              GetValue(blocks, mask, other)

\* Delete of a stored key returns, Get never finds the key afterwards, and
\* every other stored key is still found with the value it had.
DeleteRemovesOnlyItsKeyWhereGetReturns ==
    \A key \in Keys :
        Found(blocks, mask, key) =>
            LET d == Delete(blocks, mask, key)
            IN /\ d.outcome = "return"
               /\ ~Found(d.blocks, mask, key)
               /\ \A other \in Keys \ {key} :
                     Found(blocks, mask, other) =>
                        /\ Found(d.blocks, mask, other)
                        /\ GetValue(d.blocks, mask, other) =
                              GetValue(blocks, mask, other)

\* C4: Delete(k) of a key the table does not store leaves the whole
\* table as it was: control bytes, keys, values, block count and mask.
C4_DeleteOfAbsentKeyChangesNothing ==
    \A key \in Keys :
        ~Found(blocks, mask, key) => Delete(blocks, mask, key).blocks = blocks

\* a table with entries and a tombstone, and a key it does not store, whose
\* tag some stored key shares: Delete of that key returns the table unchanged
C4_Witness ==
    /\ HasLane(blocks, 1)
    /\ \E key \in Keys : \E other \in Keys \ {key} :
          /\ Usable(key)
          /\ ~Found(blocks, mask, key)
          /\ Found(blocks, mask, other)
          /\ TagOf(other) = TagOf(key)
          /\ Delete(blocks, mask, key) = [outcome |-> "return", blocks |-> blocks]

\* C5: Put of a key the table does not store returns the overflow error
\* only when no lane is empty or a tombstone; whenever some lane is empty or a
\* tombstone it stores the key and returns nil.
C5_PutOverflowsOnlyWithoutFreeLane ==
    \A key \in Keys : \A value \in ValuesFor(key) :
        ~Found(blocks, mask, key) =>
            LET p == Put(blocks, mask, key, value)
            IN IF HasLane(blocks, 0) \/ HasLane(blocks, 1)
               THEN p.err = "nil" /\ GetValue(p.blocks, mask, key) = value
               ELSE p.err = "overflow"

\* Put of a key that is not stored returns nil, and stores the key, exactly
\* when some lane is empty.
PutOverflowsWithoutEmptyLane ==
    \A key \in Keys : \A value \in ValuesFor(key) :
        ~Found(blocks, mask, key) =>
            LET p == Put(blocks, mask, key, value)
            IN IF HasLane(blocks, 0)
               THEN p.err = "nil" /\ GetValue(p.blocks, mask, key) = value
               ELSE p.err = "overflow" /\ p.blocks = blocks

\* C6: after Delete(k) of a stored key, the Put(k, v2) that follows at
\* once returns nil and Get(k) then gives v2, whether or not the table had an
\* empty lane before the Delete.
C6_PutAfterDeleteStoresAgain ==
    \A key \in Keys :
        Found(blocks, mask, key) =>
            LET d == Delete(blocks, mask, key)
            IN \A value \in ValuesFor(key) :
                  LET p == Put(d.blocks, mask, key, value)
                  IN /\ p.err = "nil"
                     /\ Found(p.blocks, mask, key)
                     /\ GetValue(p.blocks, mask, key) = value

\* Put after Delete of the same key stores the key again exactly when the
\* table had an empty lane before the Delete.
PutAfterDeleteNeedsEmptyLane ==
    \A key \in Keys :
        Found(blocks, mask, key) =>
            LET d == Delete(blocks, mask, key)
            IN \A value \in ValuesFor(key) :
                  LET p == Put(d.blocks, mask, key, value)
                  IN IF HasLane(blocks, 0)
                     THEN p.err = "nil" /\ GetValue(p.blocks, mask, key) = value
                     ELSE p.err = "overflow"

\* Get and Delete of an absent key return exactly when some lane is empty;
\* Get and Delete of a stored key always return.
ProbesReturnIffEmptyLaneOrStored ==
    \A key \in Keys :
        /\ Get(blocks, mask, key).outcome = "hang"
              <=> ~Stored(key) /\ ~HasLane(blocks, 0)
        /\ Delete(blocks, mask, key).outcome = "hang"
              <=> ~Stored(key) /\ ~HasLane(blocks, 0)

\* C7: Get returns for every key in every reachable state.
C7_GetTerminates ==
    \A key \in Keys : Get(blocks, mask, key).outcome # "hang"

\* C8: Delete returns for every key in every reachable state.
C8_DeleteTerminates ==
    \A key \in Keys : Delete(blocks, mask, key).outcome # "hang"

\* C9: as long as no key has been deleted, every stored key occupies one
\* lane and Put of a key that is not stored returns nil exactly while fewer
\* than Capacity() keys are stored: Capacity() keys can be stored, whatever
\* blocks they hash to, and the Put of one more returns the overflow error.
C9_PutOnlyFillsToCapacity ==
    counts.deletes = 0 =>
        /\ Occupied(blocks) = Cardinality({key \in Keys : Stored(key)})
        /\ \A key \in Keys : \A value \in ValuesFor(key) :
              ~Stored(key) =>
                  (Put(blocks, mask, key, value).err = "nil"
                      <=> Occupied(blocks) < Capacity(blocks))

\* Capacity() keys are stored, none was deleted, and the Put of one more key
\* has returned the overflow error
C9_Witness ==
    /\ counts.deletes = 0
    /\ last = Call("Put", "overflow", FALSE)
    /\ Occupied(blocks) = Capacity(blocks)
    /\ Cardinality({key \in Keys : Stored(key)}) = Capacity(blocks)

\* C10: when Rehash returns nil, Get gives for every key the found flag
\* and the value it gave before, a Get that returned before returns after, and
\* Iter yields as many entries as before.
C10_RehashKeepsTheMapping ==
    LET r == Rehash(blocks, mask)
    IN r.err = "nil" =>
          /\ \A key \in Keys :
                LET before == Get(blocks, mask, key)
                    after == Get(r.blocks, mask, key)
                IN /\ after.outcome = "found" <=> before.outcome = "found"
                   /\ before.outcome = "found" =>
                         r.blocks[after.block].values[after.lane] =
                            blocks[before.block].values[before.lane]
                   /\ before.outcome = "notfound" => after.outcome = "notfound"
          /\ Occupied(r.blocks) = Occupied(blocks)

\* Rehash has returned nil and changed the table, in which a key is stored
\* outside the block it hashes to
C10_Witness ==
    /\ last = Call("Rehash", "nil", FALSE)
    /\ \E key \in Keys :
          /\ Found(blocks, mask, key)
          /\ Get(blocks, mask, key).block # hashToBlock(mask, key)

\* capacities Grow is applied to in the properties: those of the calls, 0,
\* and those that need one and two blocks more than MaxBlocks
GrowArgs == {0} \cup Capacities \cup {8 * MaxBlocks, 8 * MaxBlocks + 1}

\* the block count calculateBlockCount gives for a capacity below 2^31
BlocksFor(capacity) == Nat64(calculateBlockCount(Word64(capacity)))

\* C11: for every capacity c that needs more blocks than the table has,
\* after Grow(c) has returned nil Capacity() >= c, and Get, probing with the
\* new mask, gives for every key the found flag and the value it gave before.
C11_GrowKeepsTheMapping ==
    \A c \in GrowArgs :
        BlocksFor(c) > BlockCount(blocks) =>
            LET g == Grow(blocks, mask, c)
            IN g.err = "nil" =>
                  /\ Capacity(g.blocks) >= c
                  /\ \A key \in Keys :
                        LET before == Get(blocks, mask, key)
                            after == Get(g.blocks, g.mask, key)
                        IN /\ after.outcome = "found" <=> before.outcome = "found"
                           /\ before.outcome = "found" =>
                                 g.blocks[after.block].values[after.lane] =
                                    blocks[before.block].values[before.lane]
                           /\ before.outcome = "notfound" =>
                                 after.outcome = "notfound"

\* Grow has added a block to a table and moved a stored key into it
C11_Witness ==
    /\ last = Call("Grow", "nil", FALSE)
    /\ BlockCount(blocks) = 2
    /\ \E key \in Keys :
          /\ Stored(key)
          /\ Get(blocks, mask, key).outcome = "found"
          /\ Get(blocks, mask, key).block = 1
    /\ Occupied(blocks) >= 2

\* C12: when the block count needed for c is at most the current one,
\* Grow(c) returns nil and leaves block count, mask, control bytes (tombstones
\* included), keys and values as they were.
C12_GrowWithoutNewBlocksChangesNothing ==
    \A c \in GrowArgs :
        BlocksFor(c) <= BlockCount(blocks) =>
            Grow(blocks, mask, c) = [err |-> "nil", blocks |-> blocks, mask |-> mask]

\* a two-block table with entries and a tombstone, which Grow(9) leaves as
\* it is
C12_Witness ==
    /\ BlockCount(blocks) = 2
    /\ HasLane(blocks, 1)
    /\ Occupied(blocks) >= 1
    /\ BlocksFor(9) = 2
    /\ Grow(blocks, mask, 9) = [err |-> "nil", blocks |-> blocks, mask |-> mask]

\* C13: Capacity() never decreases, and a step that changes the block
\* count or the mask is a Grow to a capacity that needs more blocks than the
\* table had; Get, Put, Delete and Rehash leave block count and mask alone.
C13_OnlyGrowChangesCapacity ==
    [][/\ Capacity(blocks') >= Capacity(blocks)
       /\ (BlockCount(blocks') # BlockCount(blocks) \/ mask' # mask) =>
             /\ last' = Call("Grow", "nil", FALSE)
             /\ Capacity(blocks') > Capacity(blocks)
             /\ \E c \in Capacities :
                   /\ BlocksFor(c) > BlockCount(blocks)
                   /\ GrowCall(c)]_vars

\* Grow has changed the capacity of a table with entries from 8 to 16
C13_Witness ==
    /\ last = Call("Grow", "nil", FALSE)
    /\ Capacity(blocks) = 2 * FixedBlockSize
    /\ mask = 1
    /\ \E key \in Keys : Stored(key) /\ hashToBlock(0, key) # hashToBlock(mask, key)

\* the table has a power of two of blocks, mask is the block count - 1
Shape(bl, msk) ==
    /\ \E e \in 0 .. (MaxBlocks + 1) : BlockCount(bl) = 2 ^ e
    /\ DOMAIN bl = 0 .. (BlockCount(bl) - 1)
    /\ msk = BlockCount(bl) - 1
    /\ Capacity(bl) = FixedBlockSize * BlockCount(bl)

\* C15: in every reachable state the number of blocks is a power of two
\* >= 1, mask is the block count - 1 and Capacity() is 8 times the block
\* count; NewFixedBlockMap and Grow give such a table for every capacity.
C15_BlockCountIsPowerOfTwo ==
    /\ Shape(blocks, mask)
    /\ \A c \in GrowArgs :
          LET g == Grow(blocks, mask, c)
              m == NewFixedBlockMap(c)
          IN Shape(g.blocks, g.mask) /\ Shape(m.blocks, m.mask)

\* a table with entries that Grow has given two blocks and mask 1
C15_Witness ==
    /\ last.op = "Grow"
    /\ BlockCount(blocks) = 2
    /\ mask = 1
    /\ Occupied(blocks) >= 1

\* the position of the lane Get's handle points to, in (block, lane) order
HandlePosition(bl, msk, key) ==
    LET r == Get(bl, msk, key) IN FixedBlockSize * r.block + r.lane

OccupiedLanes(bl) ==
    {p \in (DOMAIN bl) \X Lanes : controlByte(bl[p[1]], p[2]) \notin {0, 1}}

NoDuplicateKeys(bl) ==
    \A p, q \in OccupiedLanes(bl) :
        bl[p[1]].keys[p[2]] = bl[q[1]].keys[q[2]] => p = q

\* C17: no two occupied lanes hold the same key, in every reachable state
\* and after any stored key is deleted and put again, whatever tombstones the
\* table has.
C17_NoKeyTwice ==
    /\ NoDuplicateKeys(blocks)
    /\ \A key \in Keys : \A value \in ValuesFor(key) :
          Found(blocks, mask, key) =>
              NoDuplicateKeys(Put(Delete(blocks, mask, key).blocks, mask, key, value).blocks)

\* a deleted key has been put again while its old lane is still a tombstone
C17_Witness ==
    /\ last = Call("Put", "nil", FALSE)
    /\ counts.deletes = 1
    /\ HasLane(blocks, 1)
    /\ \E key \in Keys : \E p \in (DOMAIN blocks) \X Lanes :
          /\ Found(blocks, mask, key)
          /\ controlByte(blocks[p[1]], p[2]) = 1
          /\ blocks[p[1]].keys[p[2]] = key

\* the blocks from block from up to, not including, block to, cyclically
ProbePath(bl, from, to) ==
    {(from + d) % BlockCount(bl) :
        d \in 0 .. (((to - from + BlockCount(bl)) % BlockCount(bl)) - 1)}

NoEmptyBeforeEntries(bl, msk) ==
    \A p \in OccupiedLanes(bl) :
        \A b \in ProbePath(bl, hashToBlock(msk, bl[p[1]].keys[p[2]]), p[1]) :
            \A i \in Lanes : controlByte(bl[b], i) # 0

\* C18: for every occupied lane, no block on the cyclic path from the home
\* block of its key up to the block before its own has an empty lane; this
\* holds in every reachable state and for the table Grow gives.
C18_NoEmptyLaneBeforeAnEntry ==
    /\ NoEmptyBeforeEntries(blocks, mask)
    /\ \A c \in GrowArgs :
          LET g == Grow(blocks, mask, c)
          IN NoEmptyBeforeEntries(g.blocks, g.mask)

\* a key stored outside its home block, with a tombstone in its home block
C18_Witness ==
    \E p \in OccupiedLanes(blocks) :
        LET home == hashToBlock(mask, blocks[p[1]].keys[p[2]])
        IN /\ home # p[1]
           /\ \E i \in Lanes : controlByte(blocks[home], i) = 1

\* C19: WriteTo of a table into a buffer and ReadFrom of that buffer into a
\* new table of the same block count both return a nil error, the bytes read
\* are the bytes written, the block count times the block size, the blocks
\* of the new table equal the blocks written, and Get gives the same answer
\* for every key.
C19_ReadFromRestoresWhatWriteToWrote ==
    LET w == WriteTo(blocks)
        t == NewFixedBlockMap(Capacity(blocks))
        r == ReadFrom(t.blocks, w.written)
    IN /\ w.err = "nil"
       /\ r.err = "nil"
       /\ w.n = BlockCount(blocks) * BlockSize
       /\ r.n = w.n
       /\ t.mask = mask
       /\ r.blocks = blocks
       /\ \A key \in Keys : Get(r.blocks, t.mask, key) = Get(blocks, mask, key)

\* a two-block table with entries in both blocks and a tombstone has been
\* written and read back
C19_Witness ==
    /\ BlockCount(blocks) = 2
    /\ HasLane(blocks, 1)
    /\ \A b \in DOMAIN blocks : \E i \in Lanes : controlByte(blocks[b], i) \notin {0, 1}
    /\ WriteTo(blocks).n = 2 * BlockSize
    /\ ReadFrom(NewFixedBlockMap(Capacity(blocks)).blocks, WriteTo(blocks).written).blocks = blocks

IsPowerOfTwo64(w) == \E n \in 0 .. 63 : w = OneShiftLeft64(n)

\* max(1, ceil(capacity / 8)), which is below 2^62 for every capacity
BlocksNeeded(capacity) ==
    LET q == Div64(capacity, FixedBlockSize)
        ceil == IF capacity[1] % FixedBlockSize = 0 THEN q ELSE Add64(q, Word64(1))
    IN IF LessEq64(ceil, Word64(1)) THEN Word64(1) ELSE ceil

SmallestPowerOfTwoFrom(blockCount, needed) ==
    /\ IsPowerOfTwo64(blockCount)
    /\ LessEq64(needed, blockCount)
    /\ blockCount = Word64(1) \/ Less64(Div64(blockCount, 2), needed)

\* C14: for every uint64 capacity, those within 7 of the maximum included,
\* calculateBlockCount gives the smallest power of two that is at least
\* max(1, ceil(capacity / 8)); a map made by NewFixedBlockMap has a capacity
\* of at least the capacity asked for, and of 8 when 0 or 1 is asked for.
C14_BlockCountCoversEveryCapacity ==
    /\ last.op = "calculateBlockCount" =>
          SmallestPowerOfTwoFrom(last.blockCount, BlocksNeeded(last.capacity))
    /\ last.op = "NewFixedBlockMap" =>
          /\ Word64(BlockCount(blocks)) = calculateBlockCount(last.capacity)
          /\ SmallestPowerOfTwoFrom(last.blockCount, BlocksNeeded(last.capacity))
          /\ Capacity(blocks) >= Nat64(last.capacity)
          /\ Nat64(last.capacity) \in {0, 1} => BlockCount(blocks) = 1 /\ Capacity(blocks) = 8

\* what does hold: the same, for the capacities c with c + 7 below 2^64
BlockCountCoversCapacitiesBelowTheWrap ==
    /\ last.op = "calculateBlockCount" /\ LessEq64(last.capacity, Sub64(Zero64, Word64(8))) =>
          SmallestPowerOfTwoFrom(last.blockCount, BlocksNeeded(last.capacity))
    /\ last.op = "calculateBlockCount" /\ Less64(Sub64(Zero64, Word64(8)), last.capacity) =>
          last.blockCount = Word64(1)
    /\ last.op = "NewFixedBlockMap" =>
          /\ Word64(BlockCount(blocks)) = calculateBlockCount(last.capacity)
          /\ SmallestPowerOfTwoFrom(last.blockCount, BlocksNeeded(last.capacity))
          /\ Capacity(blocks) >= Nat64(last.capacity)
          /\ Nat64(last.capacity) \in {0, 1} => BlockCount(blocks) = 1 /\ Capacity(blocks) = 8

\* C20: FromString leaves in the key 16 bytes that the text alone decides,
\* the hash primitive being a function: whatever the key held before, the
\* same bytes result.
C20_FromStringIsDeterministic ==
    last.op = "FromString" =>
        /\ \A k \in PrevKeys \cup {last.prev, last.key} :
              FromString(k, last.sum64[last.text]) = last.key
        /\ \A i \in 1 .. 8 : last.key[i] = last.sum64[last.text][i]

\* FromString has overwritten a key of which every byte was different
C20_Witness ==
    /\ last.op = "FromString"
    /\ \A i \in 1 .. KeySize : last.prev[i] # last.key[i]
    /\ \E i \in 9 .. KeySize : last.key[i] # 0

\* C21: CollectInfo returns RecommendGrow = true exactly when 4 times the
\* number of lanes with a control byte >= 0x80 is at least 3 times
\* Capacity().
C21_RecommendGrowFromThreeQuarters ==
    last.op = "CollectInfo" =>
        (last.info.RecommendGrow <=> 4 * last.storedEntities >= 3 * last.totalSlots)

\* C22: CollectInfo returns RecommendRehash = true exactly when 5 times the
\* number of lanes with control byte 0x01 is at least Capacity(); stored lanes
\* and tombstones together are at most Capacity() and both factors are at
\* most 1.
C22_RecommendRehashFromOneFifth ==
    last.op = "CollectInfo" =>
        /\ last.info.RecommendRehash <=> 5 * last.tombstones >= last.totalSlots
        /\ last.storedEntities + last.tombstones <= last.totalSlots
        /\ Float32GreaterEq(Float32FromUint(1), last.info.LoadFactor)
        /\ Float32GreaterEq(Float32FromUint(1), last.info.TombstoneFactor)

\* what does hold: RecommendGrow is exact for tables of up to 2^24 lanes,
\* RecommendRehash for tables of up to 2^27 lanes, and the counts and factors
\* are in their ranges for all tables
RecommendationsOfSmallerTables ==
    last.op = "CollectInfo" =>
        /\ last.totalSlots <= Pow2(24) =>
              (last.info.RecommendGrow <=> 4 * last.storedEntities >= 3 * last.totalSlots)
        /\ last.totalSlots <= Pow2(27) =>
              (last.info.RecommendRehash <=> 5 * last.tombstones >= last.totalSlots)
        /\ last.storedEntities + last.tombstones <= last.totalSlots
        /\ Float32GreaterEq(Float32FromUint(1), last.info.LoadFactor)
        /\ Float32GreaterEq(Float32FromUint(1), last.info.TombstoneFactor)

\* on the tables of the table specification CollectInfo counts the lanes Iter
\* yields as stored and the lanes with control byte 0x1 as tombstones, and
\* both recommendations are exact
CollectInfoOfReachableTables ==
    LET n == CountLanes(blocks, 0, 0, 0, 0)
        info == CollectInfo(blocks)
    IN /\ n.storedEntities = Occupied(blocks)
       /\ n.storedEntities + n.tombstones <= Capacity(blocks)
       /\ n.tombstones =
             Cardinality({p \in (DOMAIN blocks) \X Lanes : controlByte(blocks[p[1]], p[2]) = 1})
       /\ info.RecommendGrow <=> 4 * n.storedEntities >= 3 * Capacity(blocks)
       /\ info.RecommendRehash <=> 5 * n.tombstones >= Capacity(blocks)

\* C23: when Rehash returns nil, no control byte of the table is 0x01.
C23_RehashLeavesNoTombstone ==
    LET r == Rehash(blocks, mask)
    IN r.err = "nil" => ~HasLane(r.blocks, 1)

\* a two-block table with entries and a tombstone in its second block, on
\* which Rehash returns nil
C23_Witness ==
    /\ BlockCount(blocks) = 2
    /\ \E i \in Lanes : controlByte(blocks[1], i) = 1
    /\ Occupied(blocks) >= 2
    /\ Rehash(blocks, mask).err = "nil"
    /\ ~HasLane(Rehash(blocks, mask).blocks, 1)

\* C24 as stated: after every Grow(c) that returns nil, whatever c, the table
\* has no tombstone lane.
C24_GrowLeavesNoTombstone ==
    \A c \in GrowArgs :
        LET g == Grow(blocks, mask, c)
        IN g.err = "nil" => ~HasLane(g.blocks, 1)

\* C24, amended: after a Grow(c) that needs more blocks than the table has
\* and returns nil the table has no tombstone lane; a Grow(c) that needs no
\* more blocks returns nil and leaves every tombstone where it was.
C24_GrowWithNewBlocksLeavesNoTombstone ==
    \A c \in GrowArgs :
        LET g == Grow(blocks, mask, c)
        IN IF BlocksFor(c) > BlockCount(blocks)
           THEN g.err = "nil" => ~HasLane(g.blocks, 1)
           ELSE /\ g.err = "nil"
                /\ \A p \in (DOMAIN blocks) \X Lanes :
                      controlByte(g.blocks[p[1]], p[2]) = 1
                         <=> controlByte(blocks[p[1]], p[2]) = 1

\* a table with entries and a tombstone that Grow(9) leaves as it is and that
\* Grow(17) makes a table of four blocks without tombstone
C24_Witness ==
    /\ HasLane(blocks, 1)
    /\ Occupied(blocks) >= 2
    /\ BlockCount(blocks) = 2
    /\ HasLane(Grow(blocks, mask, 9).blocks, 1)
    /\ Grow(blocks, mask, 17).err = "nil"
    /\ BlockCount(Grow(blocks, mask, 17).blocks) = 4
    /\ ~HasLane(Grow(blocks, mask, 17).blocks, 1)

\* the numbers of bytes the source of a ReadFrom delivers: none, a few, a
\* block less or more than the table has, one byte less or more
ReadLengths(totalSize) ==
    {0, 1, BlockSize - 1, totalSize - BlockSize, totalSize - 1,
     totalSize, totalSize + 1, totalSize + BlockSize}

\* C25: ReadFrom on a table with blocks returns an error, not nil, when the
\* source ends before block count times block size bytes, and nil with
\* exactly that many bytes read when the source has that many or more.
C25_ReadFromNeedsEveryByte ==
    LET totalSize == BlockCount(blocks) * BlockSize
        source == WriteTo(blocks).written \o BlockMemory(ZeroBlock)
        t == NewFixedBlockMap(Capacity(blocks))
    IN \A n \in ReadLengths(totalSize) :
          LET r == ReadFrom(t.blocks, SubSeq(source, 1, n))
          IN IF n < totalSize
             THEN r.err # "nil" /\ r.n = n
             ELSE r.err = "nil" /\ r.n = totalSize /\ r.blocks = blocks

\* a two-block table with entries: a source one byte short gives an error,
\* an empty source gives an error, a source of one block more gives nil
C25_Witness ==
    LET totalSize == BlockCount(blocks) * BlockSize
        source == WriteTo(blocks).written \o BlockMemory(ZeroBlock)
        t == NewFixedBlockMap(Capacity(blocks))
    IN /\ BlockCount(blocks) = 2
       /\ Occupied(blocks) >= 2
       /\ ReadFrom(t.blocks, SubSeq(source, 1, totalSize - 1)).err = "ErrUnexpectedEOF"
       /\ ReadFrom(t.blocks, <<>>).err = "EOF"
       /\ ReadFrom(t.blocks, source).err = "nil"
       /\ ReadFrom(t.blocks, source).n = totalSize

\* the lanes of bl whose control byte is another one in after
ChangedLanes(bl, after) ==
    {p \in (DOMAIN bl) \X Lanes :
        controlByte(after[p[1]], p[2]) # controlByte(bl[p[1]], p[2])}

\* C26: a Put that changes a control byte changes one, of a lane that was
\* empty or a tombstone, to an occupied one, and is a Put of an absent key; a
\* Delete that changes the table changes one control byte, from occupied to
\* tombstone, and is a Delete of a stored key; a lane that was occupied or a
\* tombstone becomes empty in steps of Rehash and Grow only.
C26_LanesChangeAlongTheLifecycle ==
    [][LET changed == ChangedLanes(blocks, blocks')
       IN /\ last'.op = "Put" /\ blocks' # blocks =>
                /\ Cardinality(changed) <= 1
                /\ \A p \in changed :
                      /\ controlByte(blocks[p[1]], p[2]) \in {0, 1}
                      /\ controlByte(blocks'[p[1]], p[2]) >= 128
                      /\ ~last'.hit
                /\ changed = {} => last'.hit
          /\ last'.op = "Delete" /\ blocks' # blocks =>
                /\ Cardinality(changed) = 1
                /\ last'.hit
                /\ \A p \in changed :
                      /\ controlByte(blocks[p[1]], p[2]) >= 128
                      /\ controlByte(blocks'[p[1]], p[2]) = 1
          /\ \A p \in changed :
                controlByte(blocks'[p[1]], p[2]) = 0 =>
                    last'.op \in {"Rehash", "Grow"}]_vars

\* a key has just been deleted, its lane is a tombstone, and a Put of an
\* absent key makes that lane an occupied one
C26_Witness ==
    /\ last = Call("Delete", "return", TRUE)
    /\ \E p \in (DOMAIN blocks) \X Lanes :
          /\ controlByte(blocks[p[1]], p[2]) = 1
          /\ ~Stored(blocks[p[1]].keys[p[2]])
          /\ \E key \in Keys : \E value \in ValuesFor(key) :
                /\ ~Stored(key)
                /\ controlByte(Put(blocks, mask, key, value).blocks[p[1]], p[2]) >= 128
                /\ controlByte(Rehash(blocks, mask).blocks[p[1]], p[2]) = 0

\* some occupied lane of bl holds key
InOccupiedLane(bl, key) ==
    \E p \in OccupiedLanes(bl) : bl[p[1]].keys[p[2]] = key

\* C27: Put returns; the blocks it inspects are the home block of the key and
\* the blocks after it in cyclic order, each once; and it returns the overflow
\* error only when it has inspected every block and no block holds the key or
\* has an empty lane.
C27_PutInspectsEveryBlockOnce ==
    \A key \in Keys :
        LET probes == PutProbes(blocks, mask, key)
            p == Put(blocks, mask, key, ZeroVal)
        IN /\ p.err \in {"nil", "overflow"}
           /\ Len(probes) >= 1
           /\ Len(probes) <= BlockCount(blocks)
           /\ \A j \in 1 .. Len(probes) :
                 probes[j] = (hashToBlock(mask, key) + j - 1) % BlockCount(blocks)
           /\ p.err = "overflow" =>
                 /\ Len(probes) = BlockCount(blocks)
                 /\ ~HasLane(blocks, 0)
                 /\ ~InOccupiedLane(blocks, key)
                 /\ p.blocks = blocks

\* Put has returned the overflow error on a one-block table after it has
\* inspected the home block
C27_Witness ==
    /\ last = Call("Put", "overflow", FALSE)
    /\ BlockCount(blocks) = 1
    /\ \E key \in Keys :
          /\ ~InOccupiedLane(blocks, key)
          /\ PutProbes(blocks, mask, key) = <<0>>
          /\ Put(blocks, mask, key, ZeroVal).err = "overflow"

\* the lanes of the table in the order of the walk of Put for key: the blocks
\* in probe order from the home block, the lanes of a block in ascending order
WalkOf(bl, msk, key) ==
    [j \in 1 .. (FixedBlockSize * BlockCount(bl)) |->
        <<(hashToBlock(msk, key) + (j - 1) \div FixedBlockSize) % BlockCount(bl),
          (j - 1) % FixedBlockSize>>]

Least(S) == CHOOSE x \in S : \A y \in S : x <= y

\* the lane of a table with an empty lane that the claim names: the first
\* tombstone before the first empty lane of the walk, else that empty lane
LaneToWrite(bl, msk, key) ==
    LET walk == WalkOf(bl, msk, key)
        firstEmpty == Least({j \in DOMAIN walk : controlByte(bl[walk[j][1]], walk[j][2]) = 0})
        tombstones == {j \in 1 .. firstEmpty : controlByte(bl[walk[j][1]], walk[j][2]) = 1}
    IN IF tombstones # {} THEN walk[Least(tombstones)] ELSE walk[firstEmpty]

\* C28: a Put of a key that is in no occupied lane, on a table with an empty
\* lane, returns nil and writes the first tombstone lane met on the walk
\* before the first empty lane, or else that empty lane: the lane gets the
\* control byte key[0] | 0x80, the key and the value, and nothing else changes.
C28_PutWritesTheLaneOfTheWalk ==
    \A key \in Keys :
        ~InOccupiedLane(blocks, key) /\ HasLane(blocks, 0) =>
            \A value \in ValuesFor(key) :
                LET t == LaneToWrite(blocks, mask, key)
                    tag == BitOrNat(KeyByte0(key), 128)
                IN Put(blocks, mask, key, value) =
                      [err |-> "nil",
                       blocks |-> [blocks EXCEPT ![t[1]] =
                                      [setControlByte(blocks[t[1]], t[2], tag)
                                          EXCEPT !.keys[t[2]] = key, !.values[t[2]] = value]]]

\* a table where the walk for an absent key meets a tombstone before its first
\* empty lane, and where the walk for another absent key meets none
C28_Witness ==
    /\ \E key \in Keys :
          /\ ~InOccupiedLane(blocks, key)
          /\ HasLane(blocks, 0)
          /\ controlByte(blocks[LaneToWrite(blocks, mask, key)[1]],
                         LaneToWrite(blocks, mask, key)[2]) = 1
    /\ \E key \in Keys :
          /\ ~InOccupiedLane(blocks, key)
          /\ HasLane(blocks, 0)
          /\ controlByte(blocks[LaneToWrite(blocks, mask, key)[1]],
                         LaneToWrite(blocks, mask, key)[2]) = 0

ControlBytesFollowKeys(bl) ==
    \A p \in (DOMAIN bl) \X Lanes :
        LET c == controlByte(bl[p[1]], p[2])
        IN \/ c = 0
           \/ c = 1
           \/ /\ c >= 128
              /\ c = BitOrNat(128, BitAndNat(KeyByte0(bl[p[1]].keys[p[2]]), 127))

FlaggedLanes(block, tag) == {i \in Lanes : TagMatch(block, tag)[i + 1] # 0}

\* the keys in the lanes of bl that are empty or tombstones
StaleKeys(bl) ==
    {bl[p[1]].keys[p[2]] : p \in ((DOMAIN bl) \X Lanes) \ OccupiedLanes(bl)}

\* the lanes of bl of which control byte, key or value is another one in after
WrittenLanes(bl, after) ==
    {p \in (DOMAIN bl) \X Lanes :
        \/ controlByte(after[p[1]], p[2]) # controlByte(bl[p[1]], p[2])
        \/ after[p[1]].keys[p[2]] # bl[p[1]].keys[p[2]]
        \/ after[p[1]].values[p[2]] # bl[p[1]].values[p[2]]}

\* C30: every lane the tag match flags has a control byte with the high bit
\* set; and for a key whose bytes are left in an empty or tombstone lane, Get
\* returns no handle to such a lane, Put overwrites no value of such a lane
\* in place, and Delete marks no such lane.
C30_OnlyOccupiedLanesAreCompared ==
    /\ \A b \in DOMAIN blocks : \A key \in Keys :
          \A i \in FlaggedLanes(blocks[b], TagOf(key)) :
              controlByte(blocks[b], i) >= 128
    /\ \A key \in StaleKeys(blocks) :
          LET g == Get(blocks, mask, key)
              d == Delete(blocks, mask, key)
          IN /\ g.outcome = "found" =>
                   /\ controlByte(blocks[g.block], g.lane) >= 128
                   /\ blocks[g.block].keys[g.lane] = key
             /\ ~InOccupiedLane(blocks, key) => g.outcome # "found" /\ d.blocks = blocks
             /\ \A p \in WrittenLanes(blocks, d.blocks) :
                   controlByte(blocks[p[1]], p[2]) >= 128
             /\ \A value \in ValuesFor(key) :
                   LET after == Put(blocks, mask, key, value).blocks
                   IN \A p \in WrittenLanes(blocks, after) \ ChangedLanes(blocks, after) :
                         controlByte(blocks[p[1]], p[2]) >= 128

\* a tombstone lane holds the bytes of a key that is not stored, and Get and
\* Delete of that key return without a handle and without a change
C30_Witness ==
    \E p \in (DOMAIN blocks) \X Lanes :
        LET key == blocks[p[1]].keys[p[2]]
        IN /\ controlByte(blocks[p[1]], p[2]) = 1
           /\ ~Stored(key)
           /\ key \in StaleKeys(blocks)
           /\ Occupied(blocks) >= 1
           /\ Get(blocks, mask, key).outcome = "notfound"
           /\ Delete(blocks, mask, key).blocks = blocks

C32_EmptyMatchIsExact ==
    last.op = "EmptyMatch" =>
        /\ last.result # Zero64 <=> \E i \in 1 .. 8 : last.control[i] = 0
        /\ (\A i \in 1 .. 8 : last.control[i] = 1 \/ last.control[i] >= 128) =>
              last.result = Zero64

\* the test has been applied to a word of tombstones and occupied lanes, and
\* to a word where a tombstone lies above an empty lane
C32_Witness ==
    /\ last.op = "EmptyMatch"
    /\ \/ /\ \A i \in 1 .. 8 : last.control[i] # 0
          /\ \E i \in 1 .. 8 : last.control[i] = 1
          /\ \E i \in 1 .. 8 : last.control[i] = 129
          /\ last.result = Zero64
       \/ /\ last.control[1] = 0
          /\ last.control[2] = 1
          /\ last.result[2] = 128

\* the table has no tombstone, and for every occupied lane every block on
\* the cyclic path from the home block of its key up to the block before its
\* own has all eight lanes occupied
FullBeforeEntries(bl, msk) ==
    /\ ~HasLane(bl, 1)
    /\ \A p \in OccupiedLanes(bl) :
          \A b \in ProbePath(bl, hashToBlock(msk, bl[p[1]].keys[p[2]]), p[1]) :
              \A i \in Lanes : controlByte(bl[b], i) >= 128

\* C33: after Rehash has returned nil, directly or inside Grow, every entry
\* is in the home block of its key, or every block on the cyclic path from
\* its home block up to the block before its own has all eight lanes
\* occupied: no empty lane and no tombstone lies before an entry.
C33_RehashPlacesEveryEntryOptimally ==
    /\ LET r == Rehash(blocks, mask)
       IN r.err = "nil" => FullBeforeEntries(r.blocks, mask)
    /\ \A c \in GrowArgs :
          BlocksFor(c) > BlockCount(blocks) =>
              LET g == Grow(blocks, mask, c)
              IN g.err = "nil" => FullBeforeEntries(g.blocks, g.mask)

\* a key is stored outside its home block while that block has a tombstone,
\* and Rehash returns nil and moves the key into its home block
C33_Witness ==
    \E p \in OccupiedLanes(blocks) :
        LET key == blocks[p[1]].keys[p[2]]
            home == hashToBlock(mask, key)
            r == Rehash(blocks, mask)
        IN /\ home # p[1]
           /\ \E i \in Lanes : controlByte(blocks[home], i) = 1
           /\ r.err = "nil"
           /\ Get(r.blocks, mask, key).outcome = "found"
           /\ Get(r.blocks, mask, key).block = home

\* the state of phase 2 of Rehash when the scan of the blocks has ended
RehashScanned(bl, msk) ==
    RehashScan([blocks |-> SweepTombstones(bl), list |-> <<>>, since |-> 0], msk, 0)

\* C34: Rehash returns nil for every reachable table, a table whose lanes
\* are all occupied included, and so does Grow for every capacity: the Put
\* of the final loop never reports overflow.
C34_RehashAndGrowReturnNil ==
    /\ Rehash(blocks, mask).err = "nil"
    /\ \A c \in GrowArgs : Grow(blocks, mask, c).err = "nil"

\* the scan of Rehash leaves an entry on the reinsert list, its optimal block
\* being full, and the Put of the final loop stores it without an error
C34_Witness ==
    /\ Len(RehashScanned(blocks, mask).list) > 0
    /\ \E b \in DOMAIN blocks : \A i \in Lanes : controlByte(blocks[b], i) >= 128
    /\ Rehash(blocks, mask).err = "nil"
    /\ Occupied(Rehash(blocks, mask).blocks) = Occupied(blocks)

\* C35: when Put returns the overflow error, the table is exactly as it was
\* before the call: no control byte, key or value has been written, the
\* tombstone lane the probe remembered included.
C35_OverflowingPutWritesNothing ==
    \A key \in Keys : \A value \in ValuesFor(key) :
        LET p == Put(blocks, mask, key, value)
        IN p.err = "overflow" => p.blocks = blocks

\* Put has returned overflow on a table that has a tombstone lane, and the
\* tombstone is still there
C35_Witness ==
    /\ last.op = "Put"
    /\ last.res = "overflow"
    /\ counts.deletes = 1
    /\ \E p \in (DOMAIN blocks) \X Lanes : controlByte(blocks[p[1]], p[2]) = 1
    /\ ~HasLane(blocks, 0)

\* C36: two different texts whose 64-bit hashes are equal are given
\* different 16-byte keys by FromString, because of the second hash in bytes
\* 8..15.
C36_CollidingTextsGetDifferentKeys ==
    last.op = "FromString" =>
        \A text \in Texts :
            (text # last.text /\ last.sum64[text] = last.sum64[last.text]) =>
                \A k \in PrevKeys : FromString(k, last.sum64[text]) # last.key

\* what does hold: bytes 8..15 of the key are the mix of bytes 0..7, so
\* that two texts get the same key exactly when their 64-bit hashes are equal
KeyFollowsFromHashAlone ==
    last.op = "FromString" =>
        /\ [i \in 1 .. 8 |-> last.key[8 + i]] = Mix64([i \in 1 .. 8 |-> last.key[i]])
        /\ \A text \in Texts : \A k \in PrevKeys :
              FromString(k, last.sum64[text]) = last.key
                  <=> last.sum64[text] = last.sum64[last.text]

\* C37: when ReadFrom returns an error because the source ended early, the
\* receiving table keeps the contents it had: its blocks are as before and
\* Get gives for every key the answer it gave before the call.
C37_FailedReadFromKeepsTheTable ==
    LET totalSize == BlockCount(blocks) * BlockSize
        source == WriteTo(NewFixedBlockMap(Capacity(blocks)).blocks).written
    IN \A n \in {m \in ReadLengths(totalSize) : m < totalSize} :
          LET r == ReadFrom(blocks, SubSeq(source, 1, n))
          IN r.err # "nil" =>
                /\ r.blocks = blocks
                /\ \A key \in Keys : Found(r.blocks, mask, key) <=> Found(blocks, mask, key)

\* what does hold: the bytes the source delivered before it ended lie at the
\* start of the block memory, the bytes after them are as before; only a
\* source that delivers nothing leaves the table as it was
ShortReadFromOverwritesThePrefix ==
    LET totalSize == BlockCount(blocks) * BlockSize
        source == WriteTo(NewFixedBlockMap(Capacity(blocks)).blocks).written
    IN \A n \in {m \in ReadLengths(totalSize) : m < totalSize} :
          LET r == ReadFrom(blocks, SubSeq(source, 1, n))
              memory == MemoryFrom(r.blocks, 0)
          IN /\ r.err # "nil"
             /\ r.n = n
             /\ SubSeq(memory, 1, n) = SubSeq(source, 1, n)
             /\ SubSeq(memory, n + 1, totalSize) = SubSeq(MemoryFrom(blocks, 0), n + 1, totalSize)
             /\ n = 0 => r.blocks = blocks

\* Get gives for every key of keys for which it returns in bl the same
\* found flag and value in after as in bl
SameAnswers(bl, after, msk, keys) ==
    \A key \in keys :
        LET a == RehashVariantGet(bl, msk, key)
            b == RehashVariantGet(after, msk, key)
        IN a.outcome # "hang" =>
              /\ a.outcome = b.outcome
              /\ a.outcome = "found" =>
                    after[b.block].values[b.lane] = bl[a.block].values[a.lane]

\* C38: for the Rehash that re-inserts with Put, after Rehash has returned
\* nil Get gives for every key the found flag and the value it gave before
\* the call, also for an entry that was judged optimal early in the scan and
\* whose probe chain wraps around through blocks that are scanned later.
C38_RehashVariantKeepsTheMapping ==
    LET r == RehashVariant(blocks, mask)
    IN (last.op \in {"Put", "Delete"} /\ r.err = "nil") =>
          SameAnswers(blocks, r.blocks, mask, VariantKeys)

\* the entries in the occupied lanes of bl
EntriesOf(bl) ==
    {<<bl[p[1]].keys[p[2]], bl[p[1]].values[p[2]]>> : p \in OccupiedLanes(bl)}

\* what does hold: the Rehash that re-inserts with Put returns nil, removes
\* the tombstones and keeps every entry in one occupied lane; it is Get that
\* no longer reaches some of them
RehashVariantKeepsTheEntries ==
    LET r == RehashVariant(blocks, mask)
    IN last.op \in {"Put", "Delete"} =>
          /\ r.err = "nil"
          /\ ~HasLane(r.blocks, 1)
          /\ EntriesOf(r.blocks) = EntriesOf(blocks)
          /\ Occupied(r.blocks) = Occupied(blocks)

\* the Rehash that re-inserts with Put keeps the mapping of every table of
\* one and two blocks
RehashVariantKeepsSmallTables ==
    LET r == RehashVariant(blocks, mask)
    IN (Running /\ r.err = "nil") => SameAnswers(blocks, r.blocks, mask, Keys)

\* the number of occupied lanes of bl that hold key with value
LanesHolding(bl, key, value) ==
    Cardinality({p \in OccupiedLanes(bl) :
                    bl[p[1]].keys[p[2]] = key /\ bl[p[1]].values[p[2]] = value})

\* the number of elements of list that hold key with value
ElementsHolding(list, key, value) ==
    Cardinality({n \in 1 .. Len(list) : list[n].key = key /\ list[n].value = value})

\* C39: at every step of phase 2 of Rehash, after each lane of the scan and
\* after each step of a periodic drain and of the final loop, every entry that
\* was live when Rehash was called is held in exactly one place, one
\* occupied lane or one element of the reinsert list, with the value it had,
\* and nothing else is held.
C39_EveryEntryIsHeldOnce ==
    last.op = "Rehash" =>
        /\ \A e \in EntriesOf(last.before) :
              LanesHolding(blocks, e[1], e[2]) + ElementsHolding(last.list, e[1], e[2]) = 1
        /\ Occupied(blocks) + Len(last.list) = Cardinality(EntriesOf(last.before))
        /\ last.err = "nil"

\* the periodic drain after the last block has placed the deferred entry in
\* its optimal block, after the scan has moved two entries, and no entry is
\* left for the final loop
C39_Witness ==
    /\ last.op = "Rehash"
    /\ last.did = "place"
    /\ last.pc = "final"
    /\ Len(last.list) = 0
    /\ counts.deletes = 2
    /\ Occupied(blocks) = Cardinality(EntriesOf(last.before))

\* the steps end with the table and the error Rehash gives as a whole
RehashStepsGiveRehash ==
    (last.op = "Rehash" /\ last.pc = "done") =>
        /\ blocks = Rehash(last.before, mask).blocks
        /\ last.err = Rehash(last.before, mask).err

====
